---- MODULE Spec2Model ----
(***************************************************************************)
(* A model of the MindEase backend (screening domain): PHQ-9 / GAD-7       *)
(* scoring on save, the Rule Engine (TriageService), the Legacy Triage     *)
(* Engine, the survey submission and CRUD entry points, and the chatbot    *)
(* conversation endpoints with their identity resolution.                  *)
(***************************************************************************)
EXTENDS Integers, Sequences, FiniteSets, TLC

VARIABLES
    scored,         \* scoring harness: the last answer vector scored both ways
    now,            \* the clock, in days
    users,          \* django.contrib.auth User rows (usernames)
    patients,       \* Patient rows, index = id
    phq9s,          \* PHQ9Screening rows, index = id, in creation order
    gad7s,          \* GAD7Screening rows, index = id, in creation order
    alerts,         \* ScreeningAlert rows, index = id
    referrals,      \* TeleconsultReferral rows, index = id
    tasks,          \* celery queue: the .delay() calls made so far, in order
    conversations,  \* ChatbotConversation rows, index = id
    messages,       \* ChatbotMessage rows, index = id, in creation order
    clinicians,     \* Clinician rows, index = id
    assignments,    \* PatientAssignment rows, index = id
    trends,         \* PatientTrend rows, index = id
    appointments,   \* Appointment rows, index = id
    plans,          \* TreatmentPlan rows, index = id
    notes,          \* ClinicalNote rows, index = id
    responses,      \* AlertResponse rows, index = id
    progress,       \* PatientSelfCareProgress rows, index = id
    completions,    \* ExerciseCompletion rows, index = id
    moods,          \* MoodEntry rows, index = id
    patient_messages,   \* PatientMessage rows, index = id
    inflight,       \* requests whose handler has started and not returned:
                    \* the handler's local variables, in order of arrival
    last            \* the last request handled and its response

\* the tables of the clinician app and of the self-care app
clinicVars == <<clinicians, assignments, trends, appointments, plans, notes,
                responses>>
careVars == <<progress, completions, moods, patient_messages, inflight>>

vars == <<scored, now, users, patients, phq9s, gad7s, alerts, referrals,
          tasks, conversations, messages, clinicVars, careVars, last>>

NULL == "null"

\* None in a DateTimeField (the clock starts at 0)
Never == -1

(***************************************************************************)
(* Bounds of the model and constants of the program.                       *)
(***************************************************************************)
MaxScreenings    == 2    \* screening rows (both instruments together)
MaxNow           == 16   \* the clock stops here
TickDays         == 8    \* the clock advances in steps of this many days
MaxConversations == 1    \* ChatbotConversation rows
MaxProgress == 2         \* PatientSelfCareProgress rows
MaxCompletions == 12     \* ExerciseCompletion rows
MaxTurns         == 1    \* chatbot turns (a user message and its reply)
MaxAssignments   == 1    \* PatientAssignment rows
MaxRecords       == 1    \* rows written by clinicians (all kinds together)
MaxChats         == 2    \* ChatbotConversation rows of the identity endpoints
MaxMoods         == 1    \* MoodEntry rows
MaxPatients      == 3    \* Patient rows of the identity endpoints, deleted
                         \* ones included

MaxAnswer  == 3          \* MaxValueValidator(3)
PHQ9Len    == 9
GAD7Len    == 7
WindowDays == 14         \* timedelta(days=14)

(***************************************************************************)
(* Helpers.                                                                *)
(***************************************************************************)
RECURSIVE SumSeq(_)
SumSeq(s) == IF s = <<>> THEN 0 ELSE Head(s) + SumSeq(Tail(s))

SelectIdx(s, P(_)) == {i \in 1..Len(s) : P(s[i])}

MaxOf(S) == CHOOSE x \in S : \A y \in S : y <= x

(***************************************************************************)
(* Scoring on save: PHQ9Screening.save and GAD7Screening.save.             *)
(* `self` is the model instance before save: its answers and the two flags *)
(* (BooleanField default False on a new instance).                         *)
(***************************************************************************)
NewPHQ9(patient, answers) ==
    [patient |-> patient, answers |-> answers,
     total_score |-> 0, severity_level |-> NULL, risk_level |-> NULL,
     requires_immediate_attention |-> FALSE, requires_teleconsult |-> FALSE,
     created_at |-> 0]

NewGAD7(patient, answers) == NewPHQ9(patient, answers)

PHQ9SaveSeverity(total) ==
    IF total <= 4 THEN "minimal"
    ELSE IF total <= 9 THEN "mild"
    ELSE IF total <= 14 THEN "moderate"
    ELSE IF total <= 19 THEN "moderately_severe"
    ELSE "severe"

GAD7SaveSeverity(total) ==
    IF total <= 4 THEN "minimal"
    ELSE IF total <= 9 THEN "mild"
    ELSE IF total <= 14 THEN "moderate"
    ELSE "severe"

\* mutant: the suicidal-ideation answer is dropped from the critical test
PHQ9SaveRisk_NoQ9(self, total) ==
    IF total >= 15
    THEN [self EXCEPT !.requires_immediate_attention = TRUE,
                      !.requires_teleconsult = TRUE,
                      !.risk_level = "critical"]
    ELSE IF total >= 10
    THEN [self EXCEPT !.requires_teleconsult = TRUE, !.risk_level = "high"]
    ELSE IF total >= 5
    THEN [self EXCEPT !.risk_level = "medium"]
    ELSE [self EXCEPT !.risk_level = "low"]

PHQ9SaveRisk(self, total) ==
    IF total >= 15 \/ self.answers[9] >= 2
    THEN [self EXCEPT !.requires_immediate_attention = TRUE,
                      !.requires_teleconsult = TRUE,
                      !.risk_level = "critical"]
    ELSE IF total >= 10
    THEN [self EXCEPT !.requires_teleconsult = TRUE, !.risk_level = "high"]
    ELSE IF total >= 5
    THEN [self EXCEPT !.risk_level = "medium"]
    ELSE [self EXCEPT !.risk_level = "low"]

GAD7SaveRisk(self, total) ==
    IF total >= 15
    THEN [self EXCEPT !.requires_immediate_attention = TRUE,
                      !.requires_teleconsult = TRUE,
                      !.risk_level = "critical"]
    ELSE IF total >= 10
    THEN [self EXCEPT !.requires_teleconsult = TRUE, !.risk_level = "high"]
    ELSE IF total >= 5
    THEN [self EXCEPT !.risk_level = "medium"]
    ELSE [self EXCEPT !.risk_level = "low"]

PHQ9Save(self) ==
    LET total == SumSeq(self.answers)
        s1 == [self EXCEPT !.total_score = total,
                           !.severity_level = PHQ9SaveSeverity(total)]
    IN  PHQ9SaveRisk(s1, total)

GAD7Save(self) ==
    LET total == SumSeq(self.answers)
        s1 == [self EXCEPT !.total_score = total,
                           !.severity_level = GAD7SaveSeverity(total)]
    IN  GAD7SaveRisk(s1, total)

(***************************************************************************)
(* TriageService: calculate_phq9 / calculate_gad7 and the severity bands.  *)
(* A ValueError is the record [error |-> TRUE].                            *)
(***************************************************************************)
\* mutant: band edges taken as strict
GetPHQ9Severity_Strict(score) ==
    IF score < 4 THEN "minimal"
    ELSE IF score < 9 THEN "mild"
    ELSE IF score < 14 THEN "moderate"
    ELSE IF score < 19 THEN "moderately_severe"
    ELSE "severe"

GetPHQ9Severity(score) ==
    IF score <= 4 THEN "minimal"
    ELSE IF score <= 9 THEN "mild"
    ELSE IF score <= 14 THEN "moderate"
    ELSE IF score <= 19 THEN "moderately_severe"
    ELSE "severe"

GetGAD7Severity(score) ==
    IF score <= 4 THEN "minimal"
    ELSE IF score <= 9 THEN "mild"
    ELSE IF score <= 14 THEN "moderate"
    ELSE "severe"

GetSeverityLabel(severity_level) ==
    CASE severity_level = "minimal" -> "Minimal"
      [] severity_level = "mild" -> "Mild"
      [] severity_level = "moderate" -> "Moderate"
      [] severity_level = "moderately_severe" -> "Moderately Severe"
      [] severity_level = "severe" -> "Severe"
      [] OTHER -> "Unknown"

\* mutant: no upper limit on an answer
AnswerOK_Unbounded(a) == a \in Int /\ a >= 0

AnswerOK(a) == a \in Int /\ a >= 0 /\ a <= MaxAnswer

CalculatePHQ9(answers) ==
    IF answers = <<>> \/ Len(answers) # PHQ9Len
    THEN [error |-> TRUE]
    ELSE IF \E i \in 1..Len(answers) : ~AnswerOK(answers[i])
    THEN [error |-> TRUE]
    ELSE LET total == SumSeq(answers)
             sev == GetPHQ9Severity(total)
         IN  [error |-> FALSE, total_score |-> total, severity_level |-> sev,
              severity_label |-> GetSeverityLabel(sev)]

CalculateGAD7(answers) ==
    IF answers = <<>> \/ Len(answers) # GAD7Len
    THEN [error |-> TRUE]
    ELSE IF \E i \in 1..Len(answers) : ~AnswerOK(answers[i])
    THEN [error |-> TRUE]
    ELSE LET total == SumSeq(answers)
             sev == GetGAD7Severity(total)
         IN  [error |-> FALSE, total_score |-> total, severity_level |-> sev,
              severity_label |-> GetSeverityLabel(sev)]

(***************************************************************************)
(* The database: one record bundling the tables, so that the engines can   *)
(* be written as functions from a database to a database.                  *)
(***************************************************************************)
DB == [users |-> users, patients |-> patients, phq9s |-> phq9s,
       gad7s |-> gad7s, alerts |-> alerts, referrals |-> referrals,
       tasks |-> tasks, conversations |-> conversations,
       messages |-> messages, clinicians |-> clinicians,
       assignments |-> assignments, trends |-> trends,
       appointments |-> appointments, plans |-> plans, notes |-> notes,
       responses |-> responses, progress |-> progress,
       completions |-> completions, moods |-> moods,
       patient_messages |-> patient_messages, inflight |-> inflight]

Commit(d) ==
    /\ users' = d.users
    /\ patients' = d.patients
    /\ phq9s' = d.phq9s
    /\ gad7s' = d.gad7s
    /\ alerts' = d.alerts
    /\ referrals' = d.referrals
    /\ tasks' = d.tasks
    /\ conversations' = d.conversations
    /\ messages' = d.messages
    /\ clinicians' = d.clinicians
    /\ assignments' = d.assignments
    /\ trends' = d.trends
    /\ appointments' = d.appointments
    /\ plans' = d.plans
    /\ notes' = d.notes
    /\ responses' = d.responses
    /\ progress' = d.progress
    /\ completions' = d.completions
    /\ moods' = d.moods
    /\ patient_messages' = d.patient_messages
    /\ inflight' = d.inflight

\* ScreeningAlert.objects.create(...): the row and its id
CreateAlert(d, patient, alert_type, message) ==
    [d EXCEPT !.alerts = Append(@, [patient |-> patient,
                                    alert_type |-> alert_type,
                                    message |-> message,
                                    is_resolved |-> FALSE,
                                    resolved_at |-> Never])]

\* send_alert_notification.delay(alert.id, priority=...)
DelayAlertNotification(d, alert_id, priority) ==
    [d EXCEPT !.tasks = Append(@, [task |-> "send_alert_notification",
                                   arg |-> alert_id,
                                   priority |-> priority])]

\* the newest row of `rows` of this patient created within the window,
\* other than row `exclude` (0 excludes none); 0 when there is none.
\* Rows are kept in creation order, so the newest is the highest index.
LatestInWindow(rows, patient, t, exclude) ==
    LET S == {i \in 1..Len(rows) :
                 /\ rows[i].patient = patient
                 /\ rows[i].created_at >= t - WindowDays
                 /\ i # exclude}
    IN  IF S = {} THEN 0 ELSE MaxOf(S)

Upper(survey_type) == IF survey_type = "phq9" THEN "PHQ9" ELSE "GAD7"

(***************************************************************************)
(* The Rule Engine: TriageService.process_triage and its helpers.          *)
(***************************************************************************)
\* _check_score_increase: the increase when it is >= 5, else None (0 here)
RuleCheckScoreIncrease(d, patient, survey_type, current_score, t) ==
    LET rows == IF survey_type = "phq9" THEN d.phq9s ELSE d.gad7s
        prev == LatestInWindow(rows, patient, t, 0)
    IN  IF prev = 0 THEN 0
        ELSE LET score_increase == current_score - rows[prev].total_score
             IN  IF score_increase >= 5 THEN score_increase ELSE 0

RuleCreateClinicianAlert(d, patient, survey_type, score_increase) ==
    LET d1 == CreateAlert(d, patient, "score_increase",
                  "Significant " \o Upper(survey_type) \o " score increase of "
                  \o ToString(score_increase)
                  \o " points within 2 weeks. Patient requires clinician review.")
    IN  DelayAlertNotification(d1, Len(d1.alerts), "high")

\* mutant: the referral is filed with medium priority
RuleCreateTeleconsultReferral_Medium(d, patient, survey_type, score, reason) ==
    [d EXCEPT !.referrals = Append(@,
        [patient |-> patient, phq9_screening |-> 0, gad7_screening |-> 0,
         reason |-> reason, priority |-> "medium", status |-> "pending"])]

RuleCreateTeleconsultReferral(d, patient, survey_type, score, reason) ==
    [d EXCEPT !.referrals = Append(@,
        [patient |-> patient, phq9_screening |-> 0, gad7_screening |-> 0,
         reason |-> reason,
         priority |-> IF score >= 15 THEN "high" ELSE "medium",
         status |-> "pending"])]

\* mutant: the moderate and mild rows of the table are swapped
GetSelfCareRecommendation_Swapped(survey_type, score, severity_level) ==
    IF severity_level = "moderate"
    THEN (IF survey_type = "gad7" THEN "4-7-8 Breathing"
          ELSE "Mindfulness Meditation")
    ELSE IF severity_level \in {"minimal", "mild"}
    THEN (IF survey_type = "gad7" THEN "Progressive Muscle Relaxation"
          ELSE "Journaling and Gratitude")
    ELSE "Guided Relaxation Exercises"

GetSelfCareRecommendation(survey_type, score, severity_level) ==
    IF severity_level \in {"minimal", "mild"}
    THEN (IF survey_type = "gad7" THEN "4-7-8 Breathing"
          ELSE "Mindfulness Meditation")
    ELSE IF severity_level = "moderate"
    THEN (IF survey_type = "gad7" THEN "Progressive Muscle Relaxation"
          ELSE "Journaling and Gratitude")
    ELSE "Guided Relaxation Exercises"

\* process_triage: [error, d, result]; error is the ValueError of an
\* unknown patient_id.
ProcessTriage(d, patient_id, survey_type, score, severity_level, t) ==
    IF patient_id \notin 1..Len(d.patients)
    THEN [error |-> TRUE, d |-> d, result |-> NULL]
    ELSE
    LET patient == patient_id
        \* Rule 1
        referral == score >= 15 /\ survey_type \in {"phq9", "gad7"}
        d1 == IF survey_type = "phq9" /\ score >= 15
              THEN RuleCreateTeleconsultReferral(d, patient, survey_type, score,
                       "PHQ-9 score of " \o ToString(score) \o " indicates "
                       \o severity_level \o " depression")
              ELSE IF survey_type = "gad7" /\ score >= 15
              THEN RuleCreateTeleconsultReferral(d, patient, survey_type, score,
                       "GAD-7 score of " \o ToString(score) \o " indicates "
                       \o severity_level \o " anxiety")
              ELSE d
        action1 == IF referral THEN "TriggerReferral" ELSE "None"
        \* Rule 2
        score_increase ==
            IF survey_type = "phq9"
            THEN RuleCheckScoreIncrease(d1, patient, survey_type, score, t)
            ELSE 0
        alert == survey_type = "phq9" /\ score_increase # 0 /\ score_increase >= 5
        d2 == IF alert
              THEN RuleCreateClinicianAlert(d1, patient, survey_type, score_increase)
              ELSE d1
        action2 == IF alert /\ action1 = "None"
                   THEN "TriggerClinicianAlert" ELSE action1
        \* Rule 3
        module == IF action2 = "None"
                  THEN GetSelfCareRecommendation(survey_type, score, severity_level)
                  ELSE NULL
        action3 == IF action2 = "None" /\ module # NULL
                   THEN "RecommendSelfCare" ELSE action2
    IN  [error |-> FALSE, d |-> d2,
         result |-> [triageAction |-> action3, recommendedModule |-> module,
                     alertCreated |-> alert, referralCreated |-> referral]]

(***************************************************************************)
(* The Legacy Triage Engine: TriageEngine.                                 *)
(***************************************************************************)
LegacyCreateCrisisAlert(d, patient, alert_type) ==
    LET d1 == CreateAlert(d, patient, alert_type,
                  "CRISIS ALERT: Immediate attention required. Patient needs urgent intervention.")
    IN  DelayAlertNotification(d1, Len(d1.alerts), "critical")

LegacyCreateAlert(d, patient, alert_type, message) ==
    LET d1 == CreateAlert(d, patient, alert_type, message)
    IN  DelayAlertNotification(d1, Len(d1.alerts), "high")

\* `kind` tells which model the screening is (hasattr q1_interest / q1_nervous)
LegacyCreateUrgentReferral(d, patient, kind, screening_id, reason) ==
    LET d1 == [d EXCEPT !.referrals = Append(@,
                 [patient |-> patient,
                  phq9_screening |-> IF kind = "phq9" THEN screening_id ELSE 0,
                  gad7_screening |-> IF kind = "gad7" THEN screening_id ELSE 0,
                  reason |-> reason, priority |-> "urgent",
                  status |-> "pending"])]
    IN  [d1 EXCEPT !.tasks = Append(@, [task |-> "schedule_teleconsult",
                                        arg |-> Len(d1.referrals),
                                        priority |-> "normal"])]

LegacyCreateTeleconsultReferral(d, patient, kind, screening_id, reason) ==
    [d EXCEPT !.referrals = Append(@,
        [patient |-> patient,
         phq9_screening |-> IF kind = "phq9" THEN screening_id ELSE 0,
         gad7_screening |-> IF kind = "gad7" THEN screening_id ELSE 0,
         reason |-> reason, priority |-> "high", status |-> "pending"])]

\* mutant: the current screening is not excluded from the lookup
LegacyCheckScoreIncrease_IncludesSelf(d, patient, screening_id, screening_type, t) ==
    LET rows == IF screening_type = "phq9" THEN d.phq9s ELSE d.gad7s
        prev == LatestInWindow(rows, patient, t, 0)
    IN  IF prev = 0 THEN d
        ELSE LET score_increase ==
                     rows[screening_id].total_score - rows[prev].total_score
             IN  IF score_increase >= 5
                 THEN LegacyCreateAlert(d, patient, "score_increase",
                          "Significant " \o Upper(screening_type)
                          \o " score increase of " \o ToString(score_increase)
                          \o " points in 2 weeks")
                 ELSE d

\* TriageEngine._check_score_increase
LegacyCheckScoreIncrease(d, patient, screening_id, screening_type, t) ==
    LET rows == IF screening_type = "phq9" THEN d.phq9s ELSE d.gad7s
        prev == LatestInWindow(rows, patient, t, screening_id)
    IN  IF prev = 0 THEN d
        ELSE LET score_increase ==
                     rows[screening_id].total_score - rows[prev].total_score
             IN  IF score_increase >= 5
                 THEN LegacyCreateAlert(d, patient, "score_increase",
                          "Significant " \o Upper(screening_type)
                          \o " score increase of " \o ToString(score_increase)
                          \o " points in 2 weeks")
                 ELSE d

\* mutant: the crisis branch does not return
ProcessPHQ9Screening_NoReturn(d, screening_id, t) ==
    LET screening == d.phq9s[screening_id]
        patient == screening.patient
        d0 == IF screening.answers[9] >= 2
              THEN LegacyCreateUrgentReferral(
                       LegacyCreateCrisisAlert(d, patient, "suicidal_ideation"),
                       patient, "phq9", screening_id, "Suicidal ideation detected")
              ELSE d
        d1 == IF screening.total_score >= 15
              THEN LegacyCreateTeleconsultReferral(
                       LegacyCreateAlert(d0, patient, "phq9_high_score",
                           "PHQ-9 score of " \o ToString(screening.total_score)
                           \o " indicates severe depression"),
                       patient, "phq9", screening_id, "High PHQ-9 score")
              ELSE d0
    IN  LegacyCheckScoreIncrease(d1, patient, screening_id, "phq9", t)

ProcessPHQ9Screening(d, screening_id, t) ==
    LET screening == d.phq9s[screening_id]
        patient == screening.patient
    IN  IF screening.answers[9] >= 2
        THEN LegacyCreateUrgentReferral(
                 LegacyCreateCrisisAlert(d, patient, "suicidal_ideation"),
                 patient, "phq9", screening_id, "Suicidal ideation detected")
        ELSE
        LET d1 == IF screening.total_score >= 15
                  THEN LegacyCreateTeleconsultReferral(
                           LegacyCreateAlert(d, patient, "phq9_high_score",
                               "PHQ-9 score of " \o ToString(screening.total_score)
                               \o " indicates severe depression"),
                           patient, "phq9", screening_id, "High PHQ-9 score")
                  ELSE d
        IN  LegacyCheckScoreIncrease(d1, patient, screening_id, "phq9", t)

ProcessGAD7Screening(d, screening_id, t) ==
    LET screening == d.gad7s[screening_id]
        patient == screening.patient
        d1 == IF screening.total_score >= 15
              THEN LegacyCreateTeleconsultReferral(
                       LegacyCreateAlert(d, patient, "gad7_high_score",
                           "GAD-7 score of " \o ToString(screening.total_score)
                           \o " indicates severe anxiety"),
                       patient, "gad7", screening_id, "High GAD-7 score")
              ELSE d
    IN  LegacyCheckScoreIncrease(d1, patient, screening_id, "gad7", t)

(***************************************************************************)
(* Patient rows and the get_or_create calls on them.  Patient.user is a    *)
(* OneToOneField and Patient.firebase_uid is unique: a create that breaks  *)
(* either raises IntegrityError, here [error |-> TRUE] with the database   *)
(* as it was.                                                              *)
(***************************************************************************)
PatientByUser(d, user) ==
    LET S == {i \in 1..Len(d.patients) : d.patients[i].user = user}
    IN  IF S = {} THEN 0 ELSE CHOOSE i \in S : TRUE

PatientByUid(d, uid) ==
    LET S == {i \in 1..Len(d.patients) : d.patients[i].firebase_uid = uid}
    IN  IF S = {} THEN 0 ELSE CHOOSE i \in S : TRUE

\* Patient.objects.create(user=..., firebase_uid=...)
PatientCreate(d, user, uid) ==
    IF PatientByUser(d, user) # 0 \/ PatientByUid(d, uid) # 0
    THEN [error |-> TRUE, d |-> d, patient |-> 0]
    ELSE LET d1 == [d EXCEPT !.patients =
                        Append(@, [user |-> user, firebase_uid |-> uid,
                                   phone_number |-> ""])]
         IN  [error |-> FALSE, d |-> d1, patient |-> Len(d1.patients)]

\* Patient.objects.get_or_create(user=user, defaults={'firebase_uid': uid})
GetOrCreateByUser(d, user, uid) ==
    IF PatientByUser(d, user) # 0
    THEN [error |-> FALSE, d |-> d, patient |-> PatientByUser(d, user)]
    ELSE PatientCreate(d, user, uid)

\* Patient.objects.get_or_create(firebase_uid=uid, defaults={'user': user})
GetOrCreateByUid(d, uid, user) ==
    IF PatientByUid(d, uid) # 0
    THEN [error |-> FALSE, d |-> d, patient |-> PatientByUid(d, uid)]
    ELSE PatientCreate(d, user, uid)

\* User.objects.get_or_create(username=...)
UserGetOrCreate(d, username) == [d EXCEPT !.users = @ \cup {username}]

\* SurveySubmissionViewSet._get_or_create_patient: request.user is
\* authenticated (IsAuthenticated); data_uid is request.data firebase_uid,
\* "" when absent.
SurveyGetOrCreatePatient(d, user, data_uid) ==
    GetOrCreateByUser(d, user, IF data_uid # "" THEN data_uid ELSE user)

(***************************************************************************)
(* What a request created: the rows appended between two databases.        *)
(***************************************************************************)
Created(d0, d1) ==
    [alert_ids |-> (Len(d0.alerts) + 1)..Len(d1.alerts),
     alerts |-> SubSeq(d1.alerts, Len(d0.alerts) + 1, Len(d1.alerts)),
     referrals |-> SubSeq(d1.referrals, Len(d0.referrals) + 1, Len(d1.referrals)),
     tasks |-> SubSeq(d1.tasks, Len(d0.tasks) + 1, Len(d1.tasks))]

\* the arguments process_triage was called with; NoCall when it was not
NoCall == [survey_type |-> NULL, score |-> 0, severity_level |-> NULL]

NoResult == [triageAction |-> NULL, recommendedModule |-> NULL,
             alertCreated |-> FALSE, referralCreated |-> FALSE]

\* SurveySubmissionViewSet._get_action_message
GetActionMessage(triage_action, severity_label, recommended_module) ==
    CASE triage_action = "TriggerReferral" ->
            "Your " \o severity_label \o " symptoms indicate you may benefit from professional support. A teleconsultation referral has been created."
      [] triage_action = "TriggerClinicianAlert" ->
            "Your symptoms have changed significantly. A clinician will review your case."
      [] triage_action = "RecommendSelfCare" ->
            "Based on your assessment, we recommend trying: " \o recommended_module \o ". This can help manage your symptoms."
      [] triage_action = "None" ->
            "Thank you for completing the assessment. Continue monitoring your symptoms."
      [] OTHER -> "Assessment completed successfully."

\* what a chatbot request did, beside its status
NoChat ==
    [conversation |-> 0, owner |-> 0, resolved |-> 0,
     authenticated |-> FALSE, own |-> 0,
     text |-> "", primary_emotion |-> NULL, risk_level |-> NULL,
     risk_keywords |-> <<>>, triage_recommendation |-> NULL,
     reply |-> "", writes |-> <<>>, new_messages |-> 0,
     created |-> [alert_ids |-> {}, alerts |-> <<>>, referrals |-> <<>>,
                  tasks |-> <<>>]]

\* what a list or detail endpoint answered: the Clinician of the caller, the
\* ids of the rows returned (or counted) and the patients they belong to
NoView ==
    [clinician |-> 0, rows |-> {}, patients |-> {}, body |-> <<>>]

\* a request that ended without a screening: nothing of it is kept but the
\* endpoint and the status
Failed(op, status) ==
    [op |-> op, user |-> NULL, status |-> status, screening |-> 0,
     patient |-> 0, legacy |-> Created(DB, DB), rule |-> Created(DB, DB),
     call |-> NoCall, result |-> NoResult, message |-> NULL,
     chat |-> NoChat, firebase_uid |-> "",
     view |-> NoView]

(***************************************************************************)
(* The engines each entry point runs on the screening it has just saved:   *)
(* [legacy |-> the database after the Legacy Triage Engine (unchanged when *)
(* it does not run), tr |-> process_triage's outcome].                     *)
(***************************************************************************)
\* mutant: the survey API runs the Legacy Triage Engine too
SubmitTriage_BothEngines(d1, kind, screening_id, patient, score_result, t) ==
    LET d2 == IF kind = "phq9"
              THEN ProcessPHQ9Screening(d1, screening_id, t)
              ELSE ProcessGAD7Screening(d1, screening_id, t)
    IN  [legacy |-> d2,
         tr |-> ProcessTriage(d2, patient, kind, score_result.total_score,
                              score_result.severity_level, t)]

\* submit_phq9 / submit_gad7: "Process triage rules"
SubmitTriage(d1, kind, screening_id, patient, score_result, t) ==
    [legacy |-> d1,
     tr |-> ProcessTriage(d1, patient, kind, score_result.total_score,
                          score_result.severity_level, t)]

\* perform_create: "Run both triage engines (legacy and new)"
CrudTriage(d1, kind, screening_id, patient, row, t) ==
    LET d2 == IF kind = "phq9"
              THEN ProcessPHQ9Screening(d1, screening_id, t)
              ELSE ProcessGAD7Screening(d1, screening_id, t)
    IN  [legacy |-> d2,
         \* if serializer.instance.total_score:
         tr |-> IF row.total_score # 0
                THEN ProcessTriage(d2, patient, kind, row.total_score,
                                   row.severity_level, t)
                ELSE [error |-> FALSE, d |-> d2, result |-> NoResult]]

(***************************************************************************)
(* SurveySubmissionViewSet.submit_phq9 / submit_gad7.                      *)
(***************************************************************************)
Submit(kind, user, data_uid, answers) ==
    LET op == IF kind = "phq9" THEN "submit_phq9" ELSE "submit_gad7"
        score_result == IF kind = "phq9" THEN CalculatePHQ9(answers)
                        ELSE CalculateGAD7(answers)
    IN
    IF answers = <<>> \/ score_result.error
    THEN /\ last' = Failed(op, 400)
         /\ UNCHANGED <<users, patients, phq9s, gad7s, alerts, referrals,
                        tasks, conversations, messages, clinicVars, careVars>>
    ELSE
    LET got == SurveyGetOrCreatePatient(DB, user, data_uid)
    IN
    IF got.error
    THEN /\ last' = Failed(op, 500)
         /\ UNCHANGED <<users, patients, phq9s, gad7s, alerts, referrals,
                        tasks, conversations, messages, clinicVars, careVars>>
    ELSE
    LET patient == got.patient
        row == IF kind = "phq9"
               THEN [PHQ9Save(NewPHQ9(patient, answers)) EXCEPT !.created_at = now]
               ELSE [GAD7Save(NewGAD7(patient, answers)) EXCEPT !.created_at = now]
        d1 == IF kind = "phq9"
              THEN [got.d EXCEPT !.phq9s = Append(@, row)]
              ELSE [got.d EXCEPT !.gad7s = Append(@, row)]
        screening_id == IF kind = "phq9" THEN Len(d1.phq9s) ELSE Len(d1.gad7s)
        run == SubmitTriage(d1, kind, screening_id, patient, score_result, now)
        tr == run.tr
    IN  /\ Commit(tr.d)
        /\ last' = [op |-> op, user |-> user, status |-> 201,
                    screening |-> screening_id, patient |-> patient,
                    legacy |-> Created(d1, run.legacy),
                    rule |-> Created(run.legacy, tr.d),
                    call |-> [survey_type |-> kind,
                              score |-> score_result.total_score,
                              severity_level |-> score_result.severity_level],
                    result |-> tr.result,
                    message |-> GetActionMessage(tr.result.triageAction,
                                    score_result.severity_label,
                                    tr.result.recommendedModule),
                    chat |-> NoChat, firebase_uid |-> "",
                    view |-> NoView]

(***************************************************************************)
(* PHQ9ScreeningViewSet / GAD7ScreeningViewSet create: the serializer's    *)
(* validation (every answer in 0..3, `patient` the id of an existing       *)
(* Patient; patient_field 0 is an absent or unknown id), then              *)
(* perform_create.                                                         *)
(***************************************************************************)
CrudCreate(kind, user, data_uid, patient_field, answers) ==
    LET op == IF kind = "phq9" THEN "create_phq9" ELSE "create_gad7"
        len == IF kind = "phq9" THEN PHQ9Len ELSE GAD7Len
    IN
    IF \/ Len(answers) # len
       \/ \E i \in 1..Len(answers) : ~AnswerOK(answers[i])
       \/ patient_field \notin 1..Len(patients)
    THEN /\ last' = Failed(op, 400)
         /\ UNCHANGED <<users, patients, phq9s, gad7s, alerts, referrals,
                        tasks, conversations, messages, clinicVars, careVars>>
    ELSE
    LET got == GetOrCreateByUser(DB, user, data_uid)
    IN
    IF got.error
    THEN /\ last' = Failed(op, 500)
         /\ UNCHANGED <<users, patients, phq9s, gad7s, alerts, referrals,
                        tasks, conversations, messages, clinicVars, careVars>>
    ELSE
    LET patient == got.patient
        row == IF kind = "phq9"
               THEN [PHQ9Save(NewPHQ9(patient, answers)) EXCEPT !.created_at = now]
               ELSE [GAD7Save(NewGAD7(patient, answers)) EXCEPT !.created_at = now]
        d1 == IF kind = "phq9"
              THEN [got.d EXCEPT !.phq9s = Append(@, row)]
              ELSE [got.d EXCEPT !.gad7s = Append(@, row)]
        screening_id == IF kind = "phq9" THEN Len(d1.phq9s) ELSE Len(d1.gad7s)
        run == CrudTriage(d1, kind, screening_id, patient, row, now)
        d2 == run.legacy
        tr == run.tr
    IN  /\ Commit(tr.d)
        /\ last' = [op |-> op, user |-> user, status |-> 201,
                    screening |-> screening_id, patient |-> patient,
                    legacy |-> Created(d1, d2), rule |-> Created(d2, tr.d),
                    call |-> IF row.total_score # 0
                             THEN [survey_type |-> kind,
                                   score |-> row.total_score,
                                   severity_level |-> row.severity_level]
                             ELSE NoCall,
                    result |-> tr.result, message |-> NULL,
                    chat |-> NoChat, firebase_uid |-> "",
                    view |-> NoView]

(***************************************************************************)
(* Inputs.                                                                 *)
(***************************************************************************)
AuthUsers == {"u1", "u2"}     \* accounts that can authenticate

AllAnswers(n) == [1..n -> 0..MaxAnswer]

\* the PHQ-9 vector whose first eight answers sum to k (threes first) and
\* whose ninth answer is q9; the GAD-7 vector whose answers sum to k
Vec9(k, q9) ==
    [i \in 1..PHQ9Len |->
        IF i = PHQ9Len THEN q9
        ELSE IF k >= 3 * i THEN 3
        ELSE IF k > 3 * (i - 1) THEN k - 3 * (i - 1) ELSE 0]

Vec7(k) ==
    [i \in 1..GAD7Len |->
        IF k >= 3 * i THEN 3
        ELSE IF k > 3 * (i - 1) THEN k - 3 * (i - 1) ELSE 0]

\* totals 0, 8, 14, 16 without suicidal ideation; 8 and 17 with it
PHQ9Inputs == {Vec9(0, 0), Vec9(8, 0), Vec9(14, 0), Vec9(16, 0),
               Vec9(6, 2), Vec9(14, 3)}

\* totals 0, 14 and 15
GAD7Inputs == {Vec7(0), Vec7(14), Vec7(15)}

\* the `patient` field of a CRUD request: absent or unknown (0), or the id
\* of the newest Patient
PatientFields == {0, Len(patients)}

(***************************************************************************)
(* Text.  A Python str is a string here; s[i:j] is SubSeq, + is \o.        *)
(***************************************************************************)
At(s, i) == SubSeq(s, i, i)

UpperCase == "ABCDEFGHIJKLMNOPQRSTUVWXYZ"
LowerCase == "abcdefghijklmnopqrstuvwxyz"
Digits    == "0123456789"

\* the characters of a string, as a set
CharsOf(s) == {At(s, k) : k \in 1..Len(s)}

UpperChars == CharsOf(UpperCase)

\* the lower-case letter of each upper-case letter
LowerOf ==
    [c \in UpperChars |->
        At(LowerCase, CHOOSE k \in 1..Len(UpperCase) : At(UpperCase, k) = c)]

\* str.lower(): the characters of s from position i on, in lower case
RECURSIVE LowerFrom(_, _)
LowerFrom(s, i) ==
    IF i > Len(s) THEN ""
    ELSE (IF At(s, i) \in UpperChars THEN LowerOf[At(s, i)] ELSE At(s, i))
             \o LowerFrom(s, i + 1)

StrLower(s) == LowerFrom(s, 1)

\* whitespace (str.strip, str.split, regex \s) and regex \w
SpaceChars == {" ", "\t", "\n"}
WordChars == CharsOf(LowerCase) \cup UpperChars \cup CharsOf(Digits) \cup {"_"}

IsSpace(c) == c \in SpaceChars
IsWordChar(c) == c \in WordChars

MinOf(S) == CHOOSE x \in S : \A y \in S : x <= y

\* the value of an expression, evaluated once: the element of a singleton
The(S) == CHOOSE v \in S : TRUE

\* str.strip(): from the first to the last character that is not whitespace
Strip(s) ==
    IF \A i \in 1..Len(s) : IsSpace(At(s, i)) THEN ""
    ELSE SubSeq(s,
             CHOOSE i \in 1..Len(s) :
                 ~IsSpace(At(s, i)) /\ \A j \in 1..(i - 1) : IsSpace(At(s, j)),
             CHOOSE i \in 1..Len(s) :
                 ~IsSpace(At(s, i)) /\ \A j \in (i + 1)..Len(s) : IsSpace(At(s, j)))

\* len(text.split())
WordCount(s) ==
    Cardinality({i \in 1..Len(s) :
                    /\ ~IsSpace(At(s, i))
                    /\ (i = 1 \/ IsSpace(At(s, i - 1)))})

\* s[i:i+len(kw)] == kw
MatchAt(s, kw, i) ==
    /\ i >= 1
    /\ i + Len(kw) - 1 <= Len(s)
    /\ SubSeq(s, i, i + Len(kw) - 1) = kw

\* kw in s
Contains(s, kw) == \E i \in 1..Len(s) : MatchAt(s, kw, i)

\* any(k in s for k in kws)
ContainsAny(s, kws) == \E k \in 1..Len(kws) : Contains(s, kws[k])

\* regex \b between the characters at i and i + 1
Boundary(s, i) ==
    LET w(k) == k \in 1..Len(s) /\ IsWordChar(At(s, k))
    IN  w(i) # w(i + 1)

\* \bkw\b matches at i
WordMatchAt(s, kw, i) ==
    /\ MatchAt(s, kw, i)
    /\ Boundary(s, i - 1)
    /\ Boundary(s, i + Len(kw) - 1)

\* len(re.findall(r'\bkw\b', s)): leftmost non-overlapping matches from i on
RECURSIVE FindAllCount(_, _, _)
FindAllCount(s, kw, i) ==
    IF i > Len(s) THEN 0
    ELSE IF WordMatchAt(s, kw, i) THEN 1 + FindAllCount(s, kw, i + Len(kw))
    ELSE FindAllCount(s, kw, i + 1)

\* re.search(r'\bmodifier\s+kw\b', s)
ModifierSearch(s, modifier, kw) ==
    \E i \in 1..Len(s) :
        /\ MatchAt(s, modifier, i)
        /\ Boundary(s, i - 1)
        /\ \E n \in 1..Len(s) :
              /\ \A k \in 0..(n - 1) :
                     /\ i + Len(modifier) + k <= Len(s)
                     /\ IsSpace(At(s, i + Len(modifier) + k))
              /\ MatchAt(s, kw, i + Len(modifier) + n)
              /\ Boundary(s, i + Len(modifier) + n + Len(kw) - 1)

(***************************************************************************)
(* EmotionDetector (nlp_utils.py).  Scores are kept as integers: a raw     *)
(* score is in tenths (the multipliers 1.5, 2.0, ... are 15, 20, ...), a   *)
(* normalised score is a numerator over 10 * words, and a final confidence *)
(* is the fraction num / den.                                              *)
(***************************************************************************)
\* EMOTION_KEYWORDS, in the dictionary's order
EMOTION_KEYWORDS ==
    << [emotion |-> "sad",
        keywords |-> <<"sad", "depressed", "down", "unhappy", "miserable",
                       "hopeless", "empty", "worthless">>],
       [emotion |-> "anxious",
        keywords |-> <<"anxious", "worried", "nervous", "stressed", "panic",
                       "fear", "afraid", "tense">>],
       [emotion |-> "angry",
        keywords |-> <<"angry", "mad", "furious", "irritated", "annoyed",
                       "frustrated", "rage">>],
       [emotion |-> "happy",
        keywords |-> <<"happy", "joy", "excited", "pleased", "content",
                       "glad", "cheerful", "good">>],
       [emotion |-> "neutral",
        keywords |-> <<"okay", "fine", "alright", "normal", "average">>],
       [emotion |-> "suicidal",
        keywords |-> <<"suicide", "kill myself", "end it all",
                       "not worth living", "better off dead">>] >>

\* INTENSITY_MODIFIERS, in the dictionary's order, multipliers in tenths
INTENSITY_MODIFIERS ==
    << [modifier |-> "very", multiplier |-> 15],
       [modifier |-> "extremely", multiplier |-> 20],
       [modifier |-> "really", multiplier |-> 13],
       [modifier |-> "quite", multiplier |-> 12],
       [modifier |-> "slightly", multiplier |-> 7],
       [modifier |-> "a bit", multiplier |-> 8],
       [modifier |-> "somewhat", multiplier |-> 9] >>

\* one keyword's contribution to its emotion's score, in tenths: the
\* matches times the first modifier found before the keyword, else times 1
KeywordScore(text_lower, keyword) ==
    LET matches == FindAllCount(text_lower, keyword, 1)
        found == {m \in 1..Len(INTENSITY_MODIFIERS) :
                     ModifierSearch(text_lower,
                                    INTENSITY_MODIFIERS[m].modifier, keyword)}
    IN  IF matches = 0 THEN 0
        ELSE IF found # {}
        THEN matches * INTENSITY_MODIFIERS[MinOf(found)].multiplier
        ELSE matches * 10

RECURSIVE EmotionScore(_, _)
EmotionScore(text_lower, keywords) ==
    IF keywords = <<>> THEN 0
    ELSE KeywordScore(text_lower, Head(keywords))
             + EmotionScore(text_lower, Tail(keywords))

\* the normalised scores of the emotions from the e-th on, in the
\* dictionary's order: min(score / words, 1.0) as a numerator over 10 * words
RECURSIVE NormalisedScores(_, _, _)
NormalisedScores(text_lower, words, e) ==
    IF e > Len(EMOTION_KEYWORDS) THEN <<>>
    ELSE LET score == EmotionScore(text_lower, EMOTION_KEYWORDS[e].keywords)
         IN  <<IF score < 10 * words THEN score ELSE 10 * words>>
                 \o NormalisedScores(text_lower, words, e + 1)

\* EmotionDetector.detect_emotions: [num |-> the normalised score of each
\* emotion (by its index in EMOTION_KEYWORDS) as a numerator, den |-> their
\* sum]; an emotion is in the returned dictionary iff its num is positive,
\* and its confidence is then num / den
detect_emotions(text) ==
    IF Len(text) = 0
    THEN [num |-> [e \in 1..Len(EMOTION_KEYWORDS) |-> 0], den |-> 0]
    ELSE The({[num |-> num, den |-> SumSeq(num)] :
                 num \in {The({NormalisedScores(text_lower, words, 1) :
                                  text_lower \in {StrLower(text)},
                                  words \in {IF WordCount(text) > 1
                                             THEN WordCount(text) ELSE 1}})}})

EmotionIndex(emotion) ==
    CHOOSE e \in 1..Len(EMOTION_KEYWORDS) :
        EMOTION_KEYWORDS[e].emotion = emotion

\* max(emotions.items(), key=...): max() keeps the first of equals
PrimaryOf(emotions) ==
    IF emotions.den = 0
    THEN [emotion |-> "neutral", num |-> 1, den |-> 1]
    ELSE LET best == MinOf({e \in 1..Len(EMOTION_KEYWORDS) :
                               \A f \in 1..Len(EMOTION_KEYWORDS) :
                                   emotions.num[f] <= emotions.num[e]})
         IN  [emotion |-> EMOTION_KEYWORDS[best].emotion,
              num |-> emotions.num[best], den |-> emotions.den]

\* EmotionDetector.get_primary_emotion
get_primary_emotion(text) ==
    The({PrimaryOf(emotions) : emotions \in {detect_emotions(text)}})

SUICIDAL_KEYWORDS ==
    <<"suicide", "kill myself", "end it all", "not worth living",
      "better off dead", "want to die", "no point">>

SELF_HARM_KEYWORDS ==
    <<"hurt myself", "cut myself", "self harm", "harm myself">>

\* the categories whose keywords are in the lower-cased text
RiskKeywordsIn(text_lower) ==
    (IF ContainsAny(text_lower, SUICIDAL_KEYWORDS)
     THEN <<"suicidal_ideation">> ELSE <<>>)
    \o (IF ContainsAny(text_lower, SELF_HARM_KEYWORDS)
        THEN <<"self_harm">> ELSE <<>>)

\* EmotionDetector.detect_risk_keywords
detect_risk_keywords(text) ==
    The({RiskKeywordsIn(text_lower) : text_lower \in {StrLower(text)}})

\* the level for the detected risk keywords and emotions; e > 0.5 is
\* 2 * num > den and e > 0.2 is 5 * num > den
RiskLevelOf(risk_keywords, emotions) ==
    LET n(emotion) == emotions.num[EmotionIndex(emotion)]
    IN  IF risk_keywords # <<>> THEN "critical"
        ELSE IF n("suicidal") > 0 THEN "critical"
        ELSE IF 2 * n("sad") > emotions.den \/ 2 * n("anxious") > emotions.den
        THEN "high"
        ELSE IF 5 * n("sad") > emotions.den \/ 5 * n("anxious") > emotions.den
        THEN "medium"
        ELSE "low"

\* EmotionDetector.assess_risk_level
assess_risk_level(text) ==
    The({RiskLevelOf(risk_keywords, emotions) :
            risk_keywords \in {detect_risk_keywords(text)},
            emotions \in {detect_emotions(text)}})

\* EmotionDetector.get_emotional_context
get_emotional_context(text) ==
    The({[emotions |-> detect_emotions(text),
          primary_emotion |-> primary.emotion,
          confidence |-> [num |-> primary.num, den |-> primary.den],
          risk_level |-> assess_risk_level(text),
          risk_keywords |-> detect_risk_keywords(text),
          text_length |-> Len(text),
          word_count |-> WordCount(text)] :
            primary \in {get_primary_emotion(text)}})

(***************************************************************************)
(* Intent recognition (intent_recognizer.py).  The trained classifier is   *)
(* outside the model: `clf` is what it does for one message,               *)
(*   [kind |-> "missing"]        no model file (FileNotFoundError),        *)
(*   [kind |-> "load_error"]     the model file cannot be loaded,          *)
(*   [kind |-> "predict_error"]  the pipeline raises while predicting,     *)
(*   [kind |-> "ok", tag, confidence]  a prediction, confidence in         *)
(*                                     hundredths.                         *)
(* A result is [raised, tag, confidence].                                  *)
(***************************************************************************)
DEFAULT_CONFIDENCE_THRESHOLD == 60

\* IntentRecognizer.predict_intent(text, return_confidence=True)
IntentRecognizer_predict_intent(text, clf) ==
    IF Len(Strip(text)) = 0 \/ clf.kind = "predict_error"
    THEN [raised |-> FALSE, tag |-> "unknown", confidence |-> 0]
    ELSE [raised |-> FALSE, tag |-> clf.tag, confidence |-> clf.confidence]

\* mutant: a confidence equal to the threshold is gated too
predict_intent_GateAtThreshold(text, clf, confidence_threshold) ==
    IF clf.kind = "missing"
    THEN [raised |-> FALSE, tag |-> "unknown", confidence |-> 0]
    ELSE IF clf.kind = "load_error"
    THEN [raised |-> TRUE, tag |-> NULL, confidence |-> 0]
    ELSE LET result == IntentRecognizer_predict_intent(text, clf)
         IN  IF result.confidence <= confidence_threshold
             THEN [result EXCEPT !.tag = "out_of_scope"]
             ELSE result

\* predict_intent(text, return_confidence=True, confidence_threshold)
predict_intent(text, clf, confidence_threshold) ==
    IF clf.kind = "missing"
    THEN [raised |-> FALSE, tag |-> "unknown", confidence |-> 0]
    ELSE IF clf.kind = "load_error"
    THEN [raised |-> TRUE, tag |-> NULL, confidence |-> 0]
    ELSE LET result == IntentRecognizer_predict_intent(text, clf)
         IN  IF result.confidence < confidence_threshold
             THEN [result EXCEPT !.tag = "out_of_scope"]
             ELSE result

(***************************************************************************)
(* TriageService.get_comprehensive_assessment; a score of 0 stands for     *)
(* None as well as for 0 (both are falsy in the conditions).               *)
(***************************************************************************)
get_treatment_recommendations(risk_level) ==
    CASE risk_level = "critical" ->
            <<"Immediate crisis intervention", "Crisis hotline: 988",
              "Emergency services: 911", "24/7 monitoring required">>
      [] risk_level = "high" ->
            <<"Urgent teleconsultation within 24 hours",
              "Consider medication evaluation", "Intensive therapy program",
              "Regular safety checks">>
      [] risk_level = "medium" ->
            <<"Teleconsultation within 1 week",
              "Self-care pathway activation", "Regular mood monitoring",
              "Therapy referral">>
      [] risk_level = "low" ->
            <<"Self-care pathway", "Regular screening",
              "Lifestyle modifications", "Preventive measures">>
      [] OTHER -> <<>>

get_comprehensive_assessment(phq9_score, gad7_score, suicidal_ideation) ==
    LET risk_level ==
            IF suicidal_ideation THEN "critical"
            ELSE IF phq9_score >= 20 \/ gad7_score >= 15 THEN "critical"
            ELSE IF phq9_score >= 15 \/ gad7_score >= 10 THEN "high"
            ELSE IF phq9_score >= 10 \/ gad7_score >= 7 THEN "medium"
            ELSE "low"
    IN  [riskLevel |-> risk_level,
         phq9Score |-> phq9_score,
         gad7Score |-> gad7_score,
         recommendations |-> get_treatment_recommendations(risk_level)]

(***************************************************************************)
(* ChatbotConversationViewSet._generate_bot_response.  The templates are   *)
(* the source's texts, their non-ASCII bullet and emoji characters written *)
(* as "*".                                                                 *)
(***************************************************************************)
CrisisTemplate ==
    "I'm concerned about what you're sharing. Your safety is important. "
    \o "Please reach out for immediate help:\n\n"
    \o "* Crisis Hotline: 988 (available 24/7)\n"
    \o "* Text HOME to: 741741\n"
    \o "* Emergency: 911\n\n"
    \o "Would you like me to help you connect with a mental health professional? "
    \o "I'm here to support you."

\* the reply to an out_of_scope message: the heuristic keyword router
OutOfScopeResponse(message_lower) ==
    IF ContainsAny(message_lower,
                   <<"screen", "phq", "gad", "assessment", "test">>)
    THEN "Great - let's get you to the screenings. We have PHQ-9 (depression) and GAD-7 (anxiety).\n\n"
         \o "You can start from the Screening section. Would you like me to take you there now?"
    ELSE IF ContainsAny(message_lower,
                        <<"self care", "self-care", "breath", "breathing",
                          "meditation", "mindful", "exercise">>)
    THEN "Self-care coming right up. We offer guided breathing, mindfulness, journaling and more.\n\n"
         \o "Open the Self-Care section and I can recommend something to match your current mood."
    ELSE IF ContainsAny(message_lower,
                        <<"dashboard", "progress", "results", "report">>)
    THEN "Your dashboard shows trends, latest PHQ-9/GAD-7 results, and recommendations.\n\n"
         \o "Shall I open the Dashboard for you?"
    ELSE "I'm focused on supporting your mental health journey. I can help you with:\n"
         \o "* Screening tests (PHQ-9, GAD-7)\n"
         \o "* Self-care exercises\n"
         \o "* Your dashboard and progress\n\n"
         \o "Which would you like to open?"

\* the intents that have a template of their own
TemplatedIntents ==
    {"greeting", "find_screening", "find_self_care", "view_dashboard",
     "need_help", "goodbye", "thanks"}

IntentResponse(intent_tag, triage_recommendation) ==
    CASE intent_tag = "greeting" ->
            "Hello! I'm here to support you. How are you feeling today? "
            \o "You can share what's on your mind, or I can help you navigate the app."
            \o (IF triage_recommendation # NULL
                THEN "\n\nBased on your recent assessment, I'd recommend trying: "
                     \o triage_recommendation
                ELSE "")
      [] intent_tag = "find_screening" ->
            "I can help you take a screening test! We have:\n"
            \o "* PHQ-9: For depression symptoms\n"
            \o "* GAD-7: For anxiety symptoms\n\n"
            \o "These take just a few minutes and give you clear next steps.\n\n"
            \o "[Go to Screening]"
      [] intent_tag = "find_self_care" ->
            "Great! I can help you find self-care exercises. We have:\n"
            \o "* Breathing exercises\n"
            \o "* Mindfulness meditation\n"
            \o "* Journaling prompts\n"
            \o "* Stress management techniques\n\n"
            \o (IF triage_recommendation # NULL
                THEN "Based on your recent assessment, I'd especially recommend: "
                     \o triage_recommendation \o ".\n\n"
                ELSE "")
            \o "[Open Self-Care]"
      [] intent_tag = "view_dashboard" ->
            "Your dashboard shows your mental health journey, including:\n"
            \o "* Your screening test results\n"
            \o "* Progress over time\n"
            \o "* Personalized recommendations\n\n"
            \o "[Open Dashboard]"
      [] intent_tag = "need_help" ->
            "I'm here to help! Here's what I can assist you with:\n\n"
            \o "* **Screening Tests**: Take PHQ-9 or GAD-7 assessments\n"
            \o "* **Self-Care**: Access mindfulness, breathing, and wellness exercises\n"
            \o "* **Dashboard**: View your progress and test results\n"
            \o "* **Chat**: Talk about what's on your mind\n\n"
            \o "What would you like to explore?"
      [] intent_tag = "goodbye" ->
            "Take care! Remember, I'm here whenever you need support. "
            \o "Don't hesitate to come back if you need help with your mental health journey."
      [] intent_tag = "thanks" ->
            "You're very welcome! I'm glad I could help. "
            \o "Feel free to reach out anytime you need support."

\* the emotion-based and general replies (priority 3)
EmotionResponse(user_message, emotion, triage_recommendation) ==
    IF emotion = "sad"
    THEN "I understand you're feeling down. It's okay to feel this way. "
         \o "Would you like to talk about what's making you feel sad? "
         \o "Sometimes sharing can help."
         \o (IF triage_recommendation # NULL
             THEN " I'd also recommend trying: " \o triage_recommendation \o "."
             ELSE " You might also consider trying one of our self-care exercises.")
    ELSE IF emotion = "anxious"
    THEN "I hear that you're feeling anxious. That can be really challenging. "
         \o (IF triage_recommendation # NULL
             THEN "I'd recommend trying: " \o triage_recommendation \o ". "
             ELSE "Would it help to try a breathing exercise together? ")
         \o "Or would you prefer to talk about what's causing your anxiety?"
    ELSE IF emotion = "happy"
    THEN "I'm glad to hear you're feeling positive! It's great that you're doing well. "
         \o "Is there anything specific you'd like to discuss or work on today?"
    ELSE IF /\ triage_recommendation # NULL
            /\ \E message_lower \in {StrLower(user_message)} :
                   ContainsAny(message_lower,
                       <<"help", "suggest", "recommend", "what should">>)
    THEN "Based on your recent assessment, I'd recommend trying: "
         \o triage_recommendation \o ". "
         \o "This can help manage your symptoms. Would you like me to guide you through it?"
    ELSE IF Len(user_message) < 20
    THEN "I'd like to understand better. Can you tell me more about what you're experiencing? "
         \o "Or if you're looking for something specific, I can help you with:\n"
         \o "* Screening tests\n"
         \o "* Self-care exercises\n"
         \o "* Your dashboard"
    ELSE "I appreciate you sharing that. What would be most helpful for you right now?"
         \o (IF triage_recommendation # NULL
             THEN " You might also find '" \o triage_recommendation \o "' helpful."
             ELSE "")

\* max(0.0, DEFAULT_CONFIDENCE_THRESHOLD - 0.2), in hundredths
RoutingThreshold ==
    IF DEFAULT_CONFIDENCE_THRESHOLD - 20 > 0
    THEN DEFAULT_CONFIDENCE_THRESHOLD - 20 ELSE 0

\* the replies below the crisis reply: intent routing, then emotion
RoutedResponse(user_message, emotion, triage_recommendation, clf) ==
    LET intent == predict_intent(user_message, clf, RoutingThreshold)
    IN  IF ~intent.raised /\ intent.tag = "out_of_scope"
        THEN The({OutOfScopeResponse(message_lower) :
                     message_lower \in {StrLower(user_message)}})
        ELSE IF ~intent.raised /\ intent.tag \in TemplatedIntents
        THEN IntentResponse(intent.tag, triage_recommendation)
        ELSE EmotionResponse(user_message, emotion, triage_recommendation)

\* mutant: intent routing is tried before the crisis reply
generate_bot_response_IntentFirst(user_message, emotion, risk_level, risk_keywords, triage_recommendation, clf) ==
    LET intent == predict_intent(user_message, clf, RoutingThreshold)
    IN  IF ~intent.raised /\ intent.tag \in TemplatedIntents
        THEN IntentResponse(intent.tag, triage_recommendation)
        ELSE IF risk_level = "critical" \/ risk_keywords # <<>>
        THEN CrisisTemplate
        ELSE RoutedResponse(user_message, emotion, triage_recommendation, clf)

generate_bot_response(user_message, emotion, risk_level, risk_keywords, triage_recommendation, clf) ==
    IF risk_level = "critical" \/ risk_keywords # <<>>
    THEN CrisisTemplate
    ELSE RoutedResponse(user_message, emotion, triage_recommendation, clf)

(***************************************************************************)
(* Chatbot identity resolution.  The unauthenticated caller is NULL; a     *)
(* firebase_uid that is absent from the request is "".                     *)
(***************************************************************************)
IsAuthenticated(user) == user \in AuthUsers

\* `firebase_uid and firebase_uid != 'anonymous'`
IsFirebaseUid(firebase_uid) == firebase_uid # "" /\ firebase_uid # "anonymous"

\* the Patient of a Firebase UID, created on first contact for the caller's
\* account or for a synthesized one
PatientOfFirebaseUid(d, user, firebase_uid) ==
    IF PatientByUid(d, firebase_uid) # 0
    THEN [error |-> FALSE, d |-> d, patient |-> PatientByUid(d, firebase_uid)]
    ELSE LET django_user == IF IsAuthenticated(user) THEN user
                            ELSE "firebase_" \o firebase_uid
             d1 == IF IsAuthenticated(user) THEN d
                   ELSE UserGetOrCreate(d, django_user)
         IN  GetOrCreateByUid(d1, firebase_uid, django_user)

\* the singleton anonymous Account / Patient pair
AnonymousPatient(d) ==
    GetOrCreateByUser(UserGetOrCreate(d, "anonymous_user"),
                      "anonymous_user", "anonymous")

\* ChatbotConversationViewSet.get_queryset: the Patient whose conversations
\* the caller may see, [error, d, patient]
get_queryset(d, user, firebase_uid) ==
    IF IsFirebaseUid(firebase_uid)
    THEN PatientOfFirebaseUid(d, user, firebase_uid)
    ELSE IF IsAuthenticated(user)
    THEN GetOrCreateByUser(d, user, user)
    ELSE AnonymousPatient(d)

\* ChatbotConversationViewSet.create; session_id is a fresh uuid4, here the
\* row's own number
ConversationCreate(d, user, data_uid) ==
    LET firebase_uid == IF data_uid = "" THEN "anonymous" ELSE data_uid
        django_user == IF IsAuthenticated(user) THEN user
                       ELSE IF IsFirebaseUid(firebase_uid)
                       THEN "firebase_" \o firebase_uid
                       ELSE "anonymous_user"
        d1 == IF IsAuthenticated(user) THEN d
              ELSE UserGetOrCreate(d, django_user)
        got == IF IsFirebaseUid(firebase_uid)
               THEN GetOrCreateByUid(d1, firebase_uid, django_user)
               ELSE GetOrCreateByUser(d1, django_user, firebase_uid)
    IN  IF got.error
        THEN [status |-> 500, d |-> got.d, conversation |-> 0, patient |-> 0]
        ELSE LET d2 == [got.d EXCEPT !.conversations =
                           Append(@, [patient |-> got.patient,
                                      session_id |-> Len(@) + 1])]
             IN  [status |-> 201, d |-> d2,
                  conversation |-> Len(d2.conversations),
                  patient |-> got.patient]

(***************************************************************************)
(* send_message.                                                           *)
(***************************************************************************)
\* filter(patient=patient).order_by('-created_at').first(): rows are kept in
\* creation order; 0 when the patient has none
LatestOf(rows, patient) ==
    LET S == {i \in 1..Len(rows) : rows[i].patient = patient}
    IN  IF S = {} THEN 0 ELSE MaxOf(S)

\* the recommendation string of the patient's latest screenings
TriageRecommendation(d, patient) ==
    LET latest_phq9 == LatestOf(d.phq9s, patient)
        latest_gad7 == LatestOf(d.gad7s, patient)
    IN  IF latest_phq9 = 0 /\ latest_gad7 = 0 THEN NULL
        ELSE LET assessment == get_comprehensive_assessment(
                     IF latest_phq9 # 0 THEN d.phq9s[latest_phq9].total_score
                     ELSE 0,
                     IF latest_gad7 # 0 THEN d.gad7s[latest_gad7].total_score
                     ELSE 0,
                     latest_phq9 # 0 /\ d.phq9s[latest_phq9].answers[9] >= 2)
             IN  IF assessment.recommendations # <<>>
                 THEN assessment.recommendations[1] ELSE NULL

\* ChatbotMessage.objects.create(...)
CreateMessage(d, row) == [d EXCEPT !.messages = Append(@, row)]

NoConfidence == [num |-> 0, den |-> 0]

\* user_message[:100]
First100(s) == SubSeq(s, 1, IF Len(s) < 100 THEN Len(s) ELSE 100)

\* mutant: a high risk level raises the crisis alert too
CrisisAlert_OnHigh(d, patient, user_message, risk_level) ==
    IF risk_level \in {"critical", "high"}
    THEN LET d1 == CreateAlert(d, patient, "crisis",
                       "Critical risk detected in chatbot conversation: "
                       \o First100(user_message))
         IN  [alert |-> d1,
              d |-> DelayAlertNotification(d1, Len(d1.alerts), "critical")]
    ELSE [alert |-> d, d |-> d]

\* the crisis alert of a turn, then its notification: the database after
\* each of the two
CrisisAlert(d, patient, user_message, risk_level) ==
    IF risk_level = "critical"
    THEN LET d1 == CreateAlert(d, patient, "crisis",
                       "Critical risk detected in chatbot conversation: "
                       \o First100(user_message))
         IN  [alert |-> d1,
              d |-> DelayAlertNotification(d1, Len(d1.alerts), "critical")]
    ELSE [alert |-> d, d |-> d]

\* the tables a step wrote to
Wrote(d0, d1) ==
    (IF Len(d1.messages) > Len(d0.messages) THEN <<"ChatbotMessage">> ELSE <<>>)
    \o (IF Len(d1.alerts) > Len(d0.alerts) THEN <<"ScreeningAlert">> ELSE <<>>)
    \o (IF Len(d1.tasks) > Len(d0.tasks) THEN <<"send_alert_notification">>
        ELSE <<>>)

\* messages as sent, before strip()
Texts ==
    {"   ",
     "I feel very sad and hopeless",
     "show me a breathing exercise",
     "I want to die",
     "there is no pointer here",
     "self care tips or I will KILL MYSELF"}

\* what the classifier does for a message
ClassifierOutcomes ==
    {[kind |-> "missing"], [kind |-> "load_error"], [kind |-> "predict_error"],
     [kind |-> "ok", tag |-> "find_self_care", confidence |-> 40],
     [kind |-> "ok", tag |-> "find_self_care", confidence |-> 39],
     [kind |-> "ok", tag |-> "smalltalk", confidence |-> 90]}

\* the detector's analysis of each message of the model, after strip()
Analysis ==
    [text \in {Strip(m) : m \in Texts} |->
        [emotional_context |-> get_emotional_context(text),
         primary |-> get_primary_emotion(text)]]

\* the recommendation strings a patient's screenings can give, and none
Recommendations ==
    {NULL} \cup {get_treatment_recommendations(risk_level)[1] :
                    risk_level \in {"critical", "high", "medium", "low"}}

\* _generate_bot_response on each message of the model, for each
\* recommendation and each outcome of the classifier
BotResponse ==
    [text \in {Strip(m) : m \in Texts}, triage_recommendation \in Recommendations,
     clf \in ClassifierOutcomes |->
        The({generate_bot_response(text, analysis.primary.emotion,
                 analysis.emotional_context.risk_level,
                 analysis.emotional_context.risk_keywords,
                 triage_recommendation, clf) :
                analysis \in {Analysis[text]}})]

\* user_msg = ChatbotMessage.objects.create(..., message_type='user', ...)
UserMessage(chat, user_message, emotional_context, primary) ==
    [conversation |-> chat.conversation,
     message_type |-> "user",
     content |-> user_message,
     detected_emotion |-> primary.emotion,
     emotion_confidence |-> [num |-> primary.num, den |-> primary.den],
     risk_level |-> emotional_context.risk_level,
     risk_keywords |-> emotional_context.risk_keywords]

\* bot_msg = ChatbotMessage.objects.create(..., message_type='bot', ...)
BotMessage(chat, bot_response) ==
    [conversation |-> chat.conversation,
     message_type |-> "bot",
     content |-> bot_response,
     detected_emotion |-> "",
     emotion_confidence |-> NoConfidence,
     risk_level |-> "",
     risk_keywords |-> <<>>]

\* send_message from the first ChatbotMessage on: the user message, the bot
\* message, the alert
Turn(d, chat, user_message, emotional_context, primary, triage_recommendation, bot_response) ==
    LET risk_level == emotional_context.risk_level
        risk_keywords == emotional_context.risk_keywords
        patient == chat.owner
        d1 == CreateMessage(d, UserMessage(chat, user_message,
                                           emotional_context, primary))
        d2 == CreateMessage(d1, BotMessage(chat, bot_response))
        crisis == CrisisAlert(d2, patient, user_message, risk_level)
    IN  [status |-> 0, d |-> crisis.d,
         chat |-> [chat EXCEPT
                     !.text = user_message,
                     !.primary_emotion = primary.emotion,
                     !.risk_level = risk_level,
                     !.risk_keywords = risk_keywords,
                     !.triage_recommendation = triage_recommendation,
                     !.reply = bot_response,
                     !.writes = Wrote(d, d1) \o Wrote(d1, d2)
                                    \o Wrote(d2, crisis.alert)
                                    \o Wrote(crisis.alert, crisis.d)]]

\* the reply, once the message is analysed and the recommendation known
Reply(d, chat, user_message, analysis, triage_recommendation, clf) ==
    The({Turn(d, chat, user_message, analysis.emotional_context,
              analysis.primary, triage_recommendation, bot_response) :
            bot_response \in
                {BotResponse[user_message, triage_recommendation, clf]}})

\* send_message once the conversation is resolved: the empty-message check,
\* the analysis, the recommendation, the reply, and the writes.  Status 0 is
\* the plain Response (HTTP 200).
Converse(d, chat, message, clf) ==
    IF Len(Strip(message)) = 0
    THEN [status |-> 400, d |-> d, chat |-> NoChat]
    ELSE The({Reply(d, chat, user_message, analysis, triage_recommendation, clf) :
                 user_message \in {Strip(message)},
                 analysis \in {Analysis[Strip(message)]},
                 triage_recommendation \in {TriageRecommendation(d, chat.owner)}})

\* s without its i-th element
Without(s, i) == SubSeq(s, 1, i - 1) \o SubSeq(s, i + 1, Len(s))

\* send_message of a resolved conversation as the server runs it next to
\* other requests, first half: the analysis, the recommendation and the
\* user message.  The handler then holds what it computed in its locals.
SaveUserMessage(d, chat, message, clf) ==
    The({[d EXCEPT
            !.messages = Append(@, UserMessage(chat, user_message,
                                               analysis.emotional_context,
                                               analysis.primary)),
            !.inflight = Append(@, [handler |-> "send_message",
                                    chat |-> chat,
                                    user_message |-> user_message,
                                    analysis |-> analysis,
                                    triage_recommendation |->
                                        TriageRecommendation(d, chat.owner),
                                    clf |-> clf])] :
            user_message \in {Strip(message)},
            analysis \in {Analysis[Strip(message)]}})

\* second half, for the i-th request in flight: the reply, the bot message,
\* the alert, the response
SaveBotResponse(d, i) ==
    LET request == d.inflight[i]
        bot_response == BotResponse[request.user_message,
                                    request.triage_recommendation,
                                    request.clf]
        d2 == CreateMessage([d EXCEPT !.inflight = Without(@, i)],
                            BotMessage(request.chat, bot_response))
        crisis == CrisisAlert(d2, request.chat.owner, request.user_message,
                              request.analysis.emotional_context.risk_level)
    IN  [status |-> 0, d |-> crisis.d,
         chat |-> [request.chat EXCEPT
                     !.text = request.user_message,
                     !.risk_level =
                         request.analysis.emotional_context.risk_level,
                     !.reply = bot_response]]

\* class Meta: ordering = ['-created_at']
ChatbotMessageOrdering_Newest(ids) ==
    [k \in 1..Cardinality(ids) |->
        CHOOSE i \in ids : Cardinality({j \in ids : j > i}) = k - 1]

\* class Meta: ordering = ['created_at'] (auto_now_add: the time of the
\* insert, which is the order of the rows)
ChatbotMessageOrdering(ids) ==
    [k \in 1..Cardinality(ids) |->
        CHOOSE i \in ids : Cardinality({j \in ids : j < i}) = k - 1]

\* ChatbotConversationViewSet.messages: get_object() on the caller's
\* queryset, then conversation.messages.all()
ConversationMessages(d, user, request_uid, pk) ==
    LET q == get_queryset(d, user, request_uid)
    IN  IF q.error THEN [status |-> 500, d |-> q.d, view |-> NoView]
        ELSE IF pk \notin 1..Len(q.d.conversations)
                \/ q.d.conversations[pk].patient # q.patient
        THEN [status |-> 404, d |-> q.d, view |-> NoView]
        ELSE [status |-> 200, d |-> q.d,
              view |-> [NoView EXCEPT
                          !.body = ChatbotMessageOrdering(
                              {i \in 1..Len(q.d.messages) :
                                  q.d.messages[i].conversation = pk})]]

\* send_message up to the conversation: the caller's firebase_uid,
\* get_object() on the caller's queryset and, when that finds nothing, the
\* direct lookup matched against the expected Patient.  Status 0 is a
\* conversation to go on with: `chat` then says whose it is (owner), which
\* Patient get_queryset resolved the caller to (resolved) and the caller's
\* own Patient (own, 0 when there is none).
ResolveConversation(d, user, request_uid, pk) ==
    LET own == IF IsAuthenticated(user) THEN PatientByUser(d, user) ELSE 0
        firebase_uid == IF request_uid = "" /\ own # 0
                        THEN d.patients[own].firebase_uid ELSE request_uid
        q == get_queryset(d, user, request_uid)
        exists == pk \in 1..Len(d.conversations)
        owner == IF exists THEN d.conversations[pk].patient ELSE 0
        chat == [NoChat EXCEPT !.conversation = pk, !.owner = owner,
                               !.resolved = q.patient,
                               !.authenticated = IsAuthenticated(user),
                               !.own = IF IsAuthenticated(user)
                                       THEN PatientByUser(q.d, user) ELSE 0]
    IN
    IF q.error
    THEN [status |-> 500, d |-> q.d, chat |-> NoChat]
    ELSE IF exists /\ owner = q.patient
    THEN [status |-> 0, d |-> q.d, chat |-> chat]
    ELSE IF ~exists
    THEN [status |-> 404, d |-> q.d, chat |-> NoChat]
    ELSE
    LET expected == IF IsFirebaseUid(firebase_uid)
                    THEN PatientOfFirebaseUid(q.d, user, firebase_uid)
                    ELSE AnonymousPatient(q.d)
    IN  IF expected.error
        THEN [status |-> 500, d |-> expected.d, chat |-> NoChat]
        ELSE IF owner # expected.patient
        THEN [status |-> 404, d |-> expected.d, chat |-> NoChat]
        ELSE [status |-> 0, d |-> expected.d, chat |-> chat]

(***************************************************************************)
(* The clinician app: the querysets of its viewsets, scoped by the active  *)
(* PatientAssignment rows of the caller's Clinician, and its writes.       *)
(* A handler is [status, d, view]; status 500 is an uncaught exception.    *)
(***************************************************************************)
\* Clinician.objects.get(user=request.user); 0 stands for DoesNotExist
ClinicianOf(d, user) ==
    LET S == {i \in 1..Len(d.clinicians) : d.clinicians[i].user = user}
    IN  IF S = {} THEN 0 ELSE CHOOSE i \in S : TRUE

\* PatientAssignment.objects.filter(clinician=clinician, is_active=True)
\*     .values_list('patient', flat=True)
AssignedPatients(d, clinician) ==
    {d.assignments[i].patient :
        i \in {j \in 1..Len(d.assignments) :
                  /\ d.assignments[j].clinician = clinician
                  /\ d.assignments[j].is_active}}

\* PatientAssignmentViewSet.get_queryset
AssignmentQuerySet(d, clinician) ==
    {i \in 1..Len(d.assignments) :
        d.assignments[i].clinician = clinician /\ d.assignments[i].is_active}

\* PatientTrendViewSet.get_queryset
PatientTrendQuerySet(d, clinician) ==
    {i \in 1..Len(d.trends) :
        d.trends[i].patient \in AssignedPatients(d, clinician)}

\* AppointmentViewSet.get_queryset
AppointmentQuerySet(d, clinician) ==
    {i \in 1..Len(d.appointments) : d.appointments[i].clinician = clinician}

\* TreatmentPlanViewSet.get_queryset
TreatmentPlanQuerySet(d, clinician) ==
    {i \in 1..Len(d.plans) :
        d.plans[i].patient \in AssignedPatients(d, clinician)}

\* ClinicalNoteViewSet.get_queryset
ClinicalNoteQuerySet(d, clinician) ==
    {i \in 1..Len(d.notes) :
        d.notes[i].patient \in AssignedPatients(d, clinician)}

\* AlertResponseViewSet.get_queryset
AlertResponseQuerySet(d, clinician) ==
    {i \in 1..Len(d.responses) :
        d.responses[i].alert \in
            {a \in 1..Len(d.alerts) :
                d.alerts[a].patient \in AssignedPatients(d, clinician)}}

\* the patients the rows `ids` of a table belong to
PatientsOf(rows, ids) == {rows[i].patient : i \in ids}

\* the list endpoints: get_queryset raises Clinician.DoesNotExist for a
\* caller who is no clinician
ListView(d, user, ids, owners) ==
    IF ClinicianOf(d, user) = 0
    THEN [status |-> 500, d |-> d, view |-> NoView]
    ELSE [status |-> 200, d |-> d,
          view |-> [NoView EXCEPT !.clinician = ClinicianOf(d, user),
                                  !.rows = ids, !.patients = owners]]

PatientTrendList(d, user) ==
    ListView(d, user, PatientTrendQuerySet(d, ClinicianOf(d, user)),
             PatientsOf(d.trends, PatientTrendQuerySet(d, ClinicianOf(d, user))))

AppointmentList(d, user) ==
    ListView(d, user, AppointmentQuerySet(d, ClinicianOf(d, user)),
             PatientsOf(d.appointments,
                        AppointmentQuerySet(d, ClinicianOf(d, user))))

TreatmentPlanList(d, user) ==
    ListView(d, user, TreatmentPlanQuerySet(d, ClinicianOf(d, user)),
             PatientsOf(d.plans, TreatmentPlanQuerySet(d, ClinicianOf(d, user))))

ClinicalNoteList(d, user) ==
    ListView(d, user, ClinicalNoteQuerySet(d, ClinicianOf(d, user)),
             PatientsOf(d.notes, ClinicalNoteQuerySet(d, ClinicianOf(d, user))))

AlertResponseList(d, user) ==
    ListView(d, user, AlertResponseQuerySet(d, ClinicianOf(d, user)),
             {d.alerts[d.responses[i].alert].patient :
                 i \in AlertResponseQuerySet(d, ClinicianOf(d, user))})

\* ClinicianDashboardViewSet.stats: the rows each figure counts
StatsRows(d, clinician, today) ==
    [trends |-> {i \in 1..Len(d.trends) :
                    d.trends[i].patient \in AssignedPatients(d, clinician)},
     alerts |-> {i \in 1..Len(d.alerts) :
                    /\ d.alerts[i].patient \in AssignedPatients(d, clinician)
                    /\ ~d.alerts[i].is_resolved},
     appointments |-> {i \in 1..Len(d.appointments) :
                          /\ d.appointments[i].clinician = clinician
                          /\ d.appointments[i].scheduled_date = today}]

RiskCount(d, ids, risk_level) ==
    Cardinality({i \in ids : d.trends[i].risk_level = risk_level})

StatsBody(d, clinician, counted) ==
    [total_patients |-> Cardinality(AssignedPatients(d, clinician)),
     high_risk_patients |->
         Cardinality({d.trends[i].patient :
                         i \in {j \in counted.trends :
                                   d.trends[j].risk_level \in {"high", "critical"}}}),
     new_screenings_today |-> 0,
     alerts_pending |-> Cardinality(counted.alerts),
     appointments_today |-> Cardinality(counted.appointments),
     risk_distribution |->
         [low |-> RiskCount(d, counted.trends, "low"),
          medium |-> RiskCount(d, counted.trends, "medium"),
          high |-> RiskCount(d, counted.trends, "high"),
          critical |-> RiskCount(d, counted.trends, "critical")]]

DashboardStats(d, user, today) ==
    IF ClinicianOf(d, user) = 0
    THEN [status |-> 404, d |-> d, view |-> NoView]
    ELSE The({[status |-> 200, d |-> d,
               view |-> [clinician |-> ClinicianOf(d, user),
                         rows |-> counted.appointments,
                         patients |->
                             PatientsOf(d.trends, counted.trends)
                             \cup PatientsOf(d.alerts, counted.alerts)
                             \cup PatientsOf(d.appointments, counted.appointments),
                         body |-> StatsBody(d, ClinicianOf(d, user), counted)]] :
                 counted \in {StatsRows(d, ClinicianOf(d, user), today)}})

\* POST assignments/: the serializer's fields are taken as sent (there is no
\* perform_create); unique_together [patient, clinician] is a validator
AssignmentCreate(d, user, patient, clinician) ==
    IF \/ patient \notin 1..Len(d.patients)
       \/ clinician \notin 1..Len(d.clinicians)
       \/ \E i \in 1..Len(d.assignments) :
              /\ d.assignments[i].patient = patient
              /\ d.assignments[i].clinician = clinician
    THEN [status |-> 400, d |-> d, view |-> NoView]
    ELSE [status |-> 201,
          d |-> [d EXCEPT !.assignments =
                     Append(@, [patient |-> patient, clinician |-> clinician,
                                is_active |-> TRUE])],
          view |-> NoView]

\* PATCH assignments/<pk>/ with is_active false: get_object() looks the row
\* up in get_queryset()
AssignmentDeactivate(d, user, pk) ==
    IF ClinicianOf(d, user) = 0
    THEN [status |-> 500, d |-> d, view |-> NoView]
    ELSE IF pk \notin AssignmentQuerySet(d, ClinicianOf(d, user))
    THEN [status |-> 404, d |-> d, view |-> NoView]
    ELSE [status |-> 200,
          d |-> [d EXCEPT !.assignments[pk].is_active = FALSE],
          view |-> [NoView EXCEPT !.clinician = ClinicianOf(d, user),
                                  !.rows = {pk}]]

\* POST appointments/, treatment-plans/, clinical-notes/: `patient` and
\* `clinician` are required fields of the serializer (a missing or unknown
\* one is 0); perform_create replaces the clinician by the caller's
ClinicianWrite(d, user, table, patient, data_clinician, fields) ==
    IF patient \notin 1..Len(d.patients)
       \/ data_clinician \notin 1..Len(d.clinicians)
    THEN [status |-> 400, d |-> d, view |-> NoView]
    ELSE IF ClinicianOf(d, user) = 0
    THEN [status |-> 500, d |-> d, view |-> NoView]
    ELSE [status |-> 201,
          d |-> [d EXCEPT ![table] =
                     Append(@, [patient |-> patient,
                                clinician |-> ClinicianOf(d, user)] @@ fields)],
          view |-> [NoView EXCEPT !.clinician = ClinicianOf(d, user),
                                  !.rows = {Len(d[table]) + 1},
                                  !.patients = {patient}]]

AppointmentCreate(d, user, patient, data_clinician, scheduled_date) ==
    ClinicianWrite(d, user, "appointments", patient, data_clinician,
                   [status |-> "scheduled", scheduled_date |-> scheduled_date])

TreatmentPlanCreate(d, user, patient, data_clinician) ==
    ClinicianWrite(d, user, "plans", patient, data_clinician,
                   [is_active |-> TRUE])

ClinicalNoteCreate(d, user, patient, data_clinician) ==
    ClinicianWrite(d, user, "notes", patient, data_clinician,
                   [note_type |-> "progress"])

\* mutant: the response is saved and the alert left as it was
AlertResponseCreate_Unresolved(d, user, alert, data_clinician, t) ==
    IF alert \notin 1..Len(d.alerts)
       \/ data_clinician \notin 1..Len(d.clinicians)
    THEN [status |-> 400, d |-> d, view |-> NoView]
    ELSE IF ClinicianOf(d, user) = 0
    THEN [status |-> 500, d |-> d, view |-> NoView]
    ELSE [status |-> 201,
          d |-> [d EXCEPT !.responses =
                     Append(@, [alert |-> alert,
                                clinician |-> ClinicianOf(d, user)])],
          view |-> [NoView EXCEPT !.clinician = ClinicianOf(d, user),
                                  !.rows = {alert},
                                  !.patients = {d.alerts[alert].patient}]]

\* AlertResponseViewSet.perform_create: the response is saved with the
\* caller's Clinician and the alert it names is marked resolved
AlertResponseCreate(d, user, alert, data_clinician, t) ==
    IF alert \notin 1..Len(d.alerts)
       \/ data_clinician \notin 1..Len(d.clinicians)
    THEN [status |-> 400, d |-> d, view |-> NoView]
    ELSE IF ClinicianOf(d, user) = 0
    THEN [status |-> 500, d |-> d, view |-> NoView]
    ELSE [status |-> 201,
          d |-> [d EXCEPT !.responses =
                     Append(@, [alert |-> alert,
                                clinician |-> ClinicianOf(d, user)]),
                          !.alerts[alert].is_resolved = TRUE,
                          !.alerts[alert].resolved_at = t],
          view |-> [NoView EXCEPT !.clinician = ClinicianOf(d, user),
                                  !.rows = {alert},
                                  !.patients = {d.alerts[alert].patient}]]

Deleted == "deleted"
Gone == -1

\* a new PatientTrend row: the nullable score and severity fields are None
NewTrend(patient, date) ==
    [patient |-> patient, date |-> date,
     phq9_score |-> Never, phq9_severity |-> NULL,
     gad7_score |-> Never, gad7_severity |-> NULL,
     risk_level |-> NULL]

\* defaults={'<kind>_score': ..., '<kind>_severity': ..., 'risk_level': ...}
TrendDefaults(row, kind, screening) ==
    [row EXCEPT ![kind \o "_score"] = screening.total_score,
                ![kind \o "_severity"] = screening.severity_level,
                !.risk_level = screening.risk_level]

UpsertTrend_Replace(rows, patient, date, kind, screening) ==
    IF \E i \in 1..Len(rows) : rows[i].patient = patient /\ rows[i].date = date
    THEN [i \in 1..Len(rows) |->
             IF rows[i].patient = patient /\ rows[i].date = date
             THEN TrendDefaults(NewTrend(patient, date), kind, screening)
             ELSE rows[i]]
    ELSE Append(rows, TrendDefaults(NewTrend(patient, date), kind, screening))

\* PatientTrend.objects.update_or_create(patient=..., date=..., defaults=...)
UpsertTrend(rows, patient, date, kind, screening) ==
    IF \E i \in 1..Len(rows) : rows[i].patient = patient /\ rows[i].date = date
    THEN [i \in 1..Len(rows) |->
             IF rows[i].patient = patient /\ rows[i].date = date
             THEN TrendDefaults(rows[i], kind, screening)
             ELSE rows[i]]
    ELSE Append(rows, TrendDefaults(NewTrend(patient, date), kind, screening))

\* the loop of process_score_trends over the screenings from row i on (a
\* deleted screening is not in the queryset)
RECURSIVE TrendLoop(_, _, _, _, _)
TrendLoop(rows, screenings, i, kind, recent_date) ==
    IF i > Len(screenings) THEN rows
    ELSE TrendLoop(IF screenings[i].patient # Gone
                      /\ screenings[i].created_at >= recent_date
                   THEN UpsertTrend(rows, screenings[i].patient,
                                    screenings[i].created_at, kind,
                                    screenings[i])
                   ELSE rows,
                   screenings, i + 1, kind, recent_date)

RecentDays == 7          \* timedelta(days=7)

\* the periodic task process_score_trends
process_score_trends(d, today) ==
    [d EXCEPT !.trends =
        TrendLoop(TrendLoop(@, d.phq9s, 1, "phq9", today - RecentDays),
                  d.gad7s, 1, "gad7", today - RecentDays)]

(***************************************************************************)
(* The Patient endpoints (PatientViewSet, a ModelViewSet open to every     *)
(* caller) and the mood entries.  A deleted row keeps its place in its     *)
(* table, so that ids stay indexes: the Patient row is left with user and  *)
(* firebase_uid Deleted, and a row deleted with it has its foreign keys    *)
(* set to Gone.  No lookup matches either.                                 *)
(***************************************************************************)

LivePatients(d) == {i \in 1..Len(d.patients) : d.patients[i].user # Deleted}

\* PatientViewSet.get_queryset for a request with no body: query_uid is the
\* query parameter firebase_uid, "" when absent
PatientQuerySet(d, user, query_uid, method) ==
    IF IsAuthenticated(user) THEN {PatientByUser(d, user)} \ {0}
    ELSE IF query_uid # "" THEN {PatientByUid(d, query_uid)} \ {0}
    ELSE IF method = "GET" THEN {}
    ELSE LivePatients(d)

\* on_delete=CASCADE from Patient: the rows of a table that go with patient p
Purge(rows, p) ==
    [i \in 1..Len(rows) |->
        IF rows[i].patient # p THEN rows[i]
        ELSE IF "clinician" \in DOMAIN rows[i]
        THEN [rows[i] EXCEPT !.patient = Gone, !.clinician = Gone]
        ELSE [rows[i] EXCEPT !.patient = Gone]]

\* on_delete=CASCADE one step further: the rows whose `key` names a row
\* that went
PurgeChildren(rows, key, parents, p) ==
    [i \in 1..Len(rows) |->
        IF rows[i][key] \in 1..Len(parents) /\ parents[rows[i][key]].patient = p
        THEN [rows[i] EXCEPT ![key] = Gone]
        ELSE rows[i]]

\* Patient.delete()
PatientDelete(d, p) ==
    [d EXCEPT !.patients[p] = [user |-> Deleted, firebase_uid |-> Deleted,
                             phone_number |-> Deleted],
              !.phq9s = Purge(@, p),
              !.gad7s = Purge(@, p),
              !.alerts = Purge(@, p),
              !.referrals = Purge(@, p),
              !.conversations = Purge(@, p),
              !.messages = PurgeChildren(@, "conversation", d.conversations, p),
              !.assignments = Purge(@, p),
              !.trends = Purge(@, p),
              !.appointments = Purge(@, p),
              !.plans = Purge(@, p),
              !.notes = Purge(@, p),
              !.responses = PurgeChildren(@, "alert", d.alerts, p),
              !.progress = Purge(@, p),
              !.completions = Purge(@, p),
              !.moods = Purge(@, p),
              !.patient_messages = Purge(@, p)]

\* PatientViewSet.create
PatientViewSetCreate(d, user, data_uid) ==
    IF data_uid = ""
    THEN [status |-> 400, d |-> d, patient |-> 0]
    ELSE IF PatientByUid(d, data_uid) # 0
    THEN [status |-> 200, d |-> d, patient |-> PatientByUid(d, data_uid)]
    ELSE \* created is true here: the lookup above found no such Patient
         (LET got == PatientOfFirebaseUid(d, user, data_uid)
          IN  [status |-> IF got.error THEN 500 ELSE 201,
               d |-> got.d, patient |-> got.patient])

\* DELETE patients/<pk>/: DestroyModelMixin.destroy over get_object()
PatientViewSetDestroy(d, user, query_uid, pk) ==
    IF pk \notin PatientQuerySet(d, user, query_uid, "DELETE")
    THEN [status |-> 404, d |-> d, patient |-> 0]
    ELSE [status |-> 204, d |-> PatientDelete(d, pk), patient |-> pk]

MOOD_LEVELS == 1..5

\* the Patient of a mood entry: MoodEntryViewSet.create, `# Get or create
\* patient`; patient 0 is None
MoodEntryPatient(d, user, data_uid) ==
    IF data_uid # "" THEN PatientOfFirebaseUid(d, user, data_uid)
    ELSE IF IsAuthenticated(user) THEN GetOrCreateByUser(d, user, user)
    ELSE [error |-> FALSE, d |-> d, patient |-> 0]

\* MoodEntryViewSet.create: mood_level 0 stands for a missing or invalid one
MoodEntryCreate(d, user, data_uid, mood_level) ==
    LET got == MoodEntryPatient(d, user, data_uid)
    IN  IF got.error
        THEN [status |-> 500, d |-> got.d, patient |-> 0]
        ELSE IF got.patient = 0
        THEN [status |-> 400, d |-> got.d, patient |-> 0]
        ELSE IF mood_level \notin MOOD_LEVELS
        THEN [status |-> 400, d |-> got.d, patient |-> got.patient]
        ELSE [status |-> 201,
              d |-> [got.d EXCEPT !.moods =
                        Append(@, [patient |-> got.patient,
                                   mood_level |-> mood_level,
                                   energy_level |-> 3, sleep_quality |-> 3,
                                   stress_level |-> 3])],
              patient |-> got.patient]

(***************************************************************************)
(* The patient's reads of their screenings: latest and screening-summary.  *)
(* PHQ9Screening and GAD7Screening declare no Meta.ordering, and           *)
(* QuerySet.first() on an unordered queryset orders by primary key.        *)
(***************************************************************************)
\* <instrument>.objects.filter(patient=patient).first(): the row of the
\* lowest id; 0 is None
FirstOf(rows, patient) ==
    IF \E i \in 1..Len(rows) : rows[i].patient = patient
    THEN MinOf({i \in 1..Len(rows) : rows[i].patient = patient})
    ELSE 0

ScreeningsOf(d, kind) == IF kind = "phq9" THEN d.phq9s ELSE d.gad7s

\* PHQ9ScreeningViewSet.latest / GAD7ScreeningViewSet.latest; an uncaught
\* Patient.DoesNotExist is status 500
ScreeningLatest(d, user, kind) ==
    IF PatientByUser(d, user) = 0
    THEN [status |-> 500, d |-> d, view |-> NoView]
    ELSE The({IF latest_screening = 0
              THEN [status |-> 404, d |-> d,
                    view |-> [NoView EXCEPT !.body = "No screenings found"]]
              ELSE [status |-> 200, d |-> d,
                    view |-> [NoView EXCEPT
                                !.rows = {latest_screening},
                                !.patients = {PatientByUser(d, user)},
                                !.body = ScreeningsOf(d, kind)[latest_screening]]] :
                latest_screening \in
                    {FirstOf(ScreeningsOf(d, kind), PatientByUser(d, user))}})

\* PATCH phq9-screenings/<pk>/ or gad7-screenings/<pk>/ with the answers:
\* get_object() over filter(patient__user=request.user), the validators of
\* the answer fields, then serializer.save(), which is instance.save()
ScreeningUpdate(d, user, kind, pk, answers) ==
    IF \/ pk \notin 1..Len(ScreeningsOf(d, kind))
       \/ PatientByUser(d, user) = 0
       \/ ScreeningsOf(d, kind)[pk].patient # PatientByUser(d, user)
    THEN [status |-> 404, d |-> d, view |-> NoView]
    ELSE IF \E i \in 1..Len(answers) : ~AnswerOK(answers[i])
    THEN [status |-> 400, d |-> d, view |-> NoView]
    ELSE [status |-> 200,
          d |-> IF kind = "phq9"
                THEN [d EXCEPT !.phq9s[pk] =
                         PHQ9Save([@ EXCEPT !.answers = answers])]
                ELSE [d EXCEPT !.gad7s[pk] =
                         GAD7Save([@ EXCEPT !.answers = answers])],
          view |-> [NoView EXCEPT !.rows = {pk},
                                  !.patients = {PatientByUser(d, user)}]]

\* ScreeningSummaryViewSet.list: the risk level and the attention flag from
\* the risk levels of the two rows; NULL where there is no row
SummaryRiskPHQ9(phq9_risk) ==
    IF phq9_risk = "critical" THEN "critical"
    ELSE IF phq9_risk = "high" THEN "high"
    ELSE IF phq9_risk = "medium" THEN "medium"
    ELSE "low"

SummaryRisk(phq9_risk, gad7_risk) ==
    IF gad7_risk = "critical" /\ SummaryRiskPHQ9(phq9_risk) # "critical"
    THEN "critical"
    ELSE IF gad7_risk = "high"
            /\ SummaryRiskPHQ9(phq9_risk) \in {"low", "medium"}
    THEN "high"
    ELSE SummaryRiskPHQ9(phq9_risk)

SummaryAttention(phq9_risk, gad7_risk) ==
    \/ phq9_risk \in {"critical", "high"}
    \/ gad7_risk = "critical" /\ SummaryRiskPHQ9(phq9_risk) # "critical"
    \/ gad7_risk = "high" /\ SummaryRiskPHQ9(phq9_risk) \in {"low", "medium"}

RiskOfRow(rows, i) == IF i = 0 THEN NULL ELSE rows[i].risk_level

\* total_score of a row; Never is None
ScoreOfRow(rows, i) == IF i = 0 THEN Never ELSE rows[i].total_score

SummaryBody(d, patient, latest_phq9, latest_gad7) ==
    [patient_id |-> patient,
     latest_phq9_score |-> ScoreOfRow(d.phq9s, latest_phq9),
     latest_gad7_score |-> ScoreOfRow(d.gad7s, latest_gad7),
     risk_level |-> SummaryRisk(RiskOfRow(d.phq9s, latest_phq9),
                                RiskOfRow(d.gad7s, latest_gad7)),
     requires_attention |->
         SummaryAttention(RiskOfRow(d.phq9s, latest_phq9),
                          RiskOfRow(d.gad7s, latest_gad7))]

ScreeningSummary(d, user) ==
    IF PatientByUser(d, user) = 0
    THEN [status |-> 500, d |-> d, view |-> NoView]
    ELSE [status |-> 200, d |-> d,
          view |-> [NoView EXCEPT
                      !.patients = {PatientByUser(d, user)},
                      !.body = SummaryBody(d, PatientByUser(d, user),
                                   FirstOf(d.phq9s, PatientByUser(d, user)),
                                   FirstOf(d.gad7s, PatientByUser(d, user)))]]

(***************************************************************************)
(* Self-care pathways.  The catalogue is maintained in the administrative  *)
(* console; the API only reads it.                                         *)
(***************************************************************************)
SelfCarePathways ==
    <<[name |-> "Staying Well", target_severity |-> "minimal", is_active |-> TRUE],
      [name |-> "First Steps", target_severity |-> "mild", is_active |-> TRUE],
      [name |-> "Building Skills", target_severity |-> "moderate", is_active |-> TRUE],
      [name |-> "Intensive Support", target_severity |-> "severe", is_active |-> TRUE],
      [name |-> "Retired Programme", target_severity |-> "severe", is_active |-> FALSE]>>

\* SelfCarePathwayViewSet.recommended: the tier of a maximum score
TargetSeverity(max_score) ==
    IF max_score >= 15 THEN "severe"
    ELSE IF max_score >= 10 THEN "moderate"
    ELSE IF max_score >= 5 THEN "mild"
    ELSE "minimal"

RecommendedTier(d, latest_phq9, latest_gad7) ==
    IF latest_phq9 # 0 /\ latest_gad7 # 0
    THEN TargetSeverity(MaxOf({d.phq9s[latest_phq9].total_score,
                               d.gad7s[latest_gad7].total_score}))
    ELSE "minimal"

PathwaysFor(target_severity) ==
    {i \in 1..Len(SelfCarePathways) :
        /\ SelfCarePathways[i].is_active
        /\ SelfCarePathways[i].target_severity = target_severity}

\* patient.phq9_screenings.first() is first() of an unordered queryset too
RecommendedPathways(d, user) ==
    IF PatientByUser(d, user) = 0
    THEN [status |-> 404, d |-> d, view |-> NoView]
    ELSE [status |-> 200, d |-> d,
          view |-> [NoView EXCEPT
                      !.patients = {PatientByUser(d, user)},
                      !.rows = PathwaysFor(RecommendedTier(d,
                                   FirstOf(d.phq9s, PatientByUser(d, user)),
                                   FirstOf(d.gad7s, PatientByUser(d, user))))]]

(***************************************************************************)
(* Self-care progress.  PatientSelfCareProgressViewSet is a ModelViewSet   *)
(* over the caller's own rows; complete_exercise is its detail action.     *)
(***************************************************************************)
\* the exercises of the catalogue, index = id
SelfCareExercises ==
    <<[name |-> "Box Breathing", exercise_type |-> "breathing"]>>

\* an id that is no exercise's
UnknownExercise == 9

\* POST progress/: perform_create looks the caller's Patient up and saves
\* the row with the model's defaults
ProgressCreate(d, user, pathway, t) ==
    IF pathway \notin 1..Len(SelfCarePathways)
    THEN [status |-> 400, d |-> d, view |-> NoView]
    ELSE IF PatientByUser(d, user) = 0
    THEN [status |-> 500, d |-> d, view |-> NoView]
    ELSE [status |-> 201,
          d |-> [d EXCEPT !.progress =
                    Append(@, [patient |-> PatientByUser(d, user),
                               pathway |-> pathway,
                               current_exercise |-> 0,
                               is_completed |-> FALSE,
                               started_at |-> t,
                               completed_at |-> Never,
                               progress_percentage |-> 0])],
          view |-> [NoView EXCEPT !.rows = {Len(d.progress) + 1},
                                  !.patients = {PatientByUser(d, user)}]]

\* mutant: the percentage is not capped
Advanced_Uncapped(progress_percentage) == progress_percentage + 10

\* progress.progress_percentage = min(100.0, progress.progress_percentage + 10.0)
Advanced(progress_percentage) == MinOf({100, progress_percentage + 10})

\* complete_exercise: "Update progress"
UpdateProgress(row, t) ==
    IF Advanced(row.progress_percentage) >= 100
    THEN [row EXCEPT !.progress_percentage = Advanced(@),
                     !.is_completed = TRUE,
                     !.completed_at = t]
    ELSE [row EXCEPT !.progress_percentage = Advanced(@)]

\* POST progress/<pk>/complete_exercise/; exercise_id 0 is an absent one
CompleteExerciseView(d, user, pk, exercise_id, t) ==
    IF PatientByUser(d, user) = 0
    THEN [status |-> 500, d |-> d, view |-> NoView]
    ELSE IF \/ pk \notin 1..Len(d.progress)
            \/ d.progress[pk].patient # PatientByUser(d, user)
    THEN [status |-> 404, d |-> d, view |-> NoView]
    ELSE IF exercise_id = 0
    THEN [status |-> 400, d |-> d, view |-> NoView]
    ELSE IF exercise_id \notin 1..Len(SelfCareExercises)
    THEN [status |-> 404, d |-> d, view |-> NoView]
    ELSE [status |-> 200,
          d |-> [d EXCEPT
                   !.completions =
                       Append(@, [patient |-> d.progress[pk].patient,
                                  exercise |-> exercise_id,
                                  completed_at |-> t]),
                   !.progress[pk] = UpdateProgress(@, t)],
          view |-> [NoView EXCEPT !.rows = {pk},
                                  !.patients = {d.progress[pk].patient}]]

(***************************************************************************)
(* The background tasks (tasks.py).  A task is a message on the queue; the *)
(* worker takes it off and runs the function.  What the mail server and    *)
(* the SMS gateway do is an input of the run.  The outcome of a run says   *)
(* whether the function raised, whether the email went out and whether the *)
(* SMS went out, and gives the database it leaves.                         *)
(***************************************************************************)
\* PATCH patients/<pk>/ with a phone_number: get_object() on the caller's
\* queryset, then the serializer's save
PatientUpdate(d, user, pk, phone_number) ==
    IF pk \notin PatientQuerySet(d, user, "", "PATCH")
    THEN [status |-> 404, d |-> d, patient |-> 0]
    ELSE [status |-> 200,
          d |-> [d EXCEPT !.patients[pk].phone_number = phone_number],
          patient |-> pk]

\* the function returned
Returned(d, email, sms) ==
    [raised |-> FALSE, d |-> d, email |-> email, sms |-> sms]

\* mutant: the exception leaves the task
Caught_Reraised(d) ==
    [raised |-> TRUE, d |-> d, email |-> FALSE, sms |-> FALSE]

\* except Exception as e: logger.error(...)
Caught(d) ==
    [raised |-> FALSE, d |-> d, email |-> FALSE, sms |-> FALSE]

\* <Model>.objects.get(id=...) finds the row
Found(rows, id) == id \in 1..Len(rows) /\ rows[id].patient # Gone

\* send_sms_notification.delay(patient.phone_number, "URGENT: ...")
DelaySmsNotification(d, phone_number) ==
    [d EXCEPT !.tasks = Append(@, [task |-> "send_sms_notification",
                                   to |-> phone_number])]

send_alert_notification(d, alert_id, priority, mail_ok) ==
    IF ~Found(d.alerts, alert_id) THEN Caught(d)
    ELSE IF ~mail_ok THEN Caught(d)
    ELSE IF /\ priority = "critical"
            /\ d.patients[d.alerts[alert_id].patient].phone_number # ""
    THEN Returned(DelaySmsNotification(d,
                      d.patients[d.alerts[alert_id].patient].phone_number),
                  TRUE, FALSE)
    ELSE Returned(d, TRUE, FALSE)

\* what the gateway does: no credentials in the settings, the message is
\* accepted, or the client raises
TwilioOutcomes == {"unconfigured", "sent", "error"}

send_sms_notification(d, twilio) ==
    IF twilio = "unconfigured" THEN Returned(d, FALSE, FALSE)
    ELSE IF twilio = "error" THEN Caught(d)
    ELSE Returned(d, FALSE, TRUE)

schedule_teleconsult(d, referral_id) ==
    IF ~Found(d.referrals, referral_id) THEN Caught(d)
    ELSE Returned([d EXCEPT !.referrals[referral_id].status = "scheduled"],
                  FALSE, FALSE)

\* the MotivationalMessage rows, kept in the administrative console
MotivationalMessages ==
    <<[title |-> "Keep going", target_audience |-> "all", is_active |-> TRUE],
      [title |-> "We miss you", target_audience |-> "low_engagement",
       is_active |-> TRUE],
      [title |-> "You are not alone", target_audience |-> "high_risk",
       is_active |-> TRUE],
      [title |-> "Old campaign", target_audience |-> "all",
       is_active |-> FALSE]>>

\* filter(is_active=True, target_audience__in=['all', 'low_engagement'])
CheckInMessages ==
    {m \in 1..Len(MotivationalMessages) :
        /\ MotivationalMessages[m].is_active
        /\ MotivationalMessages[m].target_audience \in {"all", "low_engagement"}}

\* send_weekly_check_in; `message` is the row order_by('?').first() gives
send_weekly_check_in(d, patient_id, message, mail_ok, t) ==
    IF patient_id \notin LivePatients(d) THEN Caught(d)
    ELSE IF message \notin CheckInMessages THEN Returned(d, FALSE, FALSE)
    ELSE IF ~mail_ok
    THEN Caught([d EXCEPT !.patient_messages =
                    Append(@, [patient |-> patient_id, message |-> message,
                               sent_at |-> t, is_read |-> FALSE])])
    ELSE Returned([d EXCEPT !.patient_messages =
                      Append(@, [patient |-> patient_id, message |-> message,
                                 sent_at |-> t, is_read |-> FALSE])],
                  TRUE, FALSE)

\* the worker runs the task of a message
RunOf(d, message, mail_ok, twilio) ==
    IF message.task = "send_alert_notification"
    THEN send_alert_notification(d, message.arg, message.priority, mail_ok)
    ELSE IF message.task = "send_sms_notification"
    THEN send_sms_notification(d, twilio)
    ELSE schedule_teleconsult(d, message.arg)

(***************************************************************************)
(* Initial state: an empty database with the registered accounts.          *)
(***************************************************************************)
NoRequest ==
    [op |-> "none", user |-> NULL, status |-> 0, screening |-> 0,
     patient |-> 0,
     legacy |-> [alert_ids |-> {}, alerts |-> <<>>, referrals |-> <<>>,
                 tasks |-> <<>>],
     rule |-> [alert_ids |-> {}, alerts |-> <<>>, referrals |-> <<>>,
               tasks |-> <<>>],
     call |-> NoCall, result |-> NoResult, message |-> NULL,
     chat |-> NoChat, firebase_uid |-> "",
     view |-> NoView]

InitDB ==
    /\ now = 0
    /\ users = AuthUsers
    /\ patients = <<>>
    /\ phq9s = <<>>
    /\ gad7s = <<>>
    /\ alerts = <<>>
    /\ referrals = <<>>
    /\ tasks = <<>>
    /\ conversations = <<>>
    /\ messages = <<>>
    /\ clinicians = <<>>
    /\ assignments = <<>>
    /\ trends = <<>>
    /\ appointments = <<>>
    /\ plans = <<>>
    /\ notes = <<>>
    /\ responses = <<>>
    /\ progress = <<>>
    /\ completions = <<>>
    /\ moods = <<>>
    /\ patient_messages = <<>>
    /\ inflight = <<>>
    /\ last = NoRequest

Init ==
    /\ InitDB
    /\ scored = [kind |-> "none"]

(***************************************************************************)
(* The scoring harness: every answer vector, scored by the save path and   *)
(* by the Rule Engine's calculate function.                                *)
(***************************************************************************)
InitScoring ==
    /\ InitDB
    /\ scored \in [kind : {"phq9"}, answers : AllAnswers(PHQ9Len), done : {FALSE}]
              \cup [kind : {"gad7"}, answers : AllAnswers(GAD7Len), done : {FALSE}]

ScorePHQ9 ==
    /\ scored.kind = "phq9" /\ ~scored.done
    /\ scored' = [kind |-> "phq9", answers |-> scored.answers, done |-> TRUE,
                  saved |-> PHQ9Save(NewPHQ9(0, scored.answers)),
                  calc |-> CalculatePHQ9(scored.answers)]
    /\ UNCHANGED <<now, users, patients, phq9s, gad7s, alerts, referrals,
                   tasks, conversations, messages, clinicVars, careVars,
                   last>>

ScoreGAD7 ==
    /\ scored.kind = "gad7" /\ ~scored.done
    /\ scored' = [kind |-> "gad7", answers |-> scored.answers, done |-> TRUE,
                  saved |-> GAD7Save(NewGAD7(0, scored.answers)),
                  calc |-> CalculateGAD7(scored.answers)]
    /\ UNCHANGED <<now, users, patients, phq9s, gad7s, alerts, referrals,
                   tasks, conversations, messages, clinicVars, careVars,
                   last>>

NextScoring == ScorePHQ9 \/ ScoreGAD7

SpecScoring == InitScoring /\ [][NextScoring]_vars

(***************************************************************************)
(* The screening entry points as actions.                                  *)
(***************************************************************************)
RoomForScreening == Len(phq9s) + Len(gad7s) < MaxScreenings

SubmitPHQ9 ==
    /\ RoomForScreening
    /\ \E user \in AuthUsers, answers \in PHQ9Inputs :
           Submit("phq9", user, "", answers)
    /\ UNCHANGED <<scored, now>>

SubmitGAD7 ==
    /\ RoomForScreening
    /\ \E user \in AuthUsers, answers \in GAD7Inputs :
           Submit("gad7", user, "", answers)
    /\ UNCHANGED <<scored, now>>

CreatePHQ9 ==
    /\ RoomForScreening
    /\ \E user \in AuthUsers, answers \in PHQ9Inputs,
          patient_field \in PatientFields :
           CrudCreate("phq9", user, "", patient_field, answers)
    /\ UNCHANGED <<scored, now>>

CreateGAD7 ==
    /\ RoomForScreening
    /\ \E user \in AuthUsers, answers \in GAD7Inputs,
          patient_field \in PatientFields :
           CrudCreate("gad7", user, "", patient_field, answers)
    /\ UNCHANGED <<scored, now>>

Tick ==
    /\ now + TickDays <= MaxNow
    /\ now' = now + TickDays
    /\ UNCHANGED <<scored, users, patients, phq9s, gad7s, alerts, referrals,
                   tasks, conversations, messages, clinicVars, careVars,
                   last>>

Next == SubmitPHQ9 \/ SubmitGAD7 \/ CreatePHQ9 \/ CreateGAD7 \/ Tick

Spec == Init /\ [][Next]_vars

(***************************************************************************)
(* The chatbot endpoints as actions.                                       *)
(***************************************************************************)
\* callers: an authenticated account and the unauthenticated caller
Callers == {"u1", NULL}

\* the request's firebase_uid: absent, or an external identifier
FirebaseUids == {"", "fb1"}

\* the screenings recorded before the chatbot is used: [kind, answers]
HistoryInputs ==
    {<<"phq9", Vec9(6, 2)>>, <<"gad7", Vec7(9)>>}

Turns ==
    Cardinality({i \in 1..Len(messages) : messages[i].message_type = "user"})

\* a screening of u1 recorded before the chatbot is used
RecordHistory ==
    /\ patients = <<>> /\ last = NoRequest
    /\ \E h \in HistoryInputs : Submit(h[1], "u1", "", h[2])
    /\ UNCHANGED <<scored, now>>

CreateConversation ==
    /\ Len(conversations) < MaxConversations
    /\ \E user \in Callers, data_uid \in FirebaseUids :
           LET r == ConversationCreate(DB, user, data_uid)
           IN  /\ Commit(r.d)
               /\ last' = [NoRequest EXCEPT
                             !.op = "create_conversation",
                             !.status = r.status,
                             !.patient = r.patient,
                             !.chat = [NoChat EXCEPT
                                         !.conversation = r.conversation,
                                         !.owner = r.patient]]
    /\ UNCHANGED <<scored, now>>

\* the response of send_message and what it leaves in the database
Respond(r) ==
    /\ Commit(r.d)
    /\ last' = [NoRequest EXCEPT
                  !.op = "send_message",
                  !.status = IF r.status = 0 THEN 200 ELSE r.status,
                  !.patient = r.chat.owner,
                  !.chat = [r.chat EXCEPT
                              !.new_messages =
                                  Len(r.d.messages) - Len(messages),
                              !.created = Created(DB, r.d)]]

\* ChatbotConversationViewSet.send_message: the conversation is resolved,
\* and once it is, the message is answered
SendMessage ==
    /\ Turns < MaxTurns
    /\ \E user \in Callers, request_uid \in FirebaseUids,
          pk \in 1..MaxConversations :
           \E found \in {ResolveConversation(DB, user, request_uid, pk)} :
               IF found.status # 0
               THEN Respond(found)
               ELSE \E message \in Texts, clf \in ClassifierOutcomes :
                        \E r \in {Converse(found.d, found.chat, message, clf)} :
                            Respond(r)
    /\ UNCHANGED <<scored, now>>

NextChat == RecordHistory \/ CreateConversation \/ SendMessage

SpecChat == Init /\ [][NextChat]_vars

(***************************************************************************)
(* The clinician endpoints as actions.  The Clinician rows are made in the *)
(* administrative console (POST clinicians/ saves no user), so they are    *)
(* there from the start.                                                   *)
(***************************************************************************)
ClinicianUsers == <<"c1", "c2">>

\* the callers of the clinician endpoints: the clinicians and a patient
ClinicCallers == {"c1", "c2", "u1"}

\* the answers of the screenings the patients record: a PHQ-9 of total 8
\* whose ninth answer is 2
IntakeAnswers == Vec9(6, 2)

\* the `clinician` field of a write: missing, or the id of a Clinician
DataClinicians == {0, 1}

\* scheduled_date of a new appointment: today or tomorrow
ScheduledDates == {now, now + 1}

InitClinic ==
    /\ now = 0
    /\ scored = [kind |-> "none"]
    /\ users = AuthUsers \cup {ClinicianUsers[i] : i \in 1..Len(ClinicianUsers)}
    /\ patients = <<>>
    /\ phq9s = <<>>
    /\ gad7s = <<>>
    /\ alerts = <<>>
    /\ referrals = <<>>
    /\ tasks = <<>>
    /\ conversations = <<>>
    /\ messages = <<>>
    /\ clinicians = [i \in 1..Len(ClinicianUsers) |-> [user |-> ClinicianUsers[i]]]
    /\ assignments = <<>>
    /\ trends = <<>>
    /\ appointments = <<>>
    /\ plans = <<>>
    /\ notes = <<>>
    /\ responses = <<>>
    /\ progress = <<>>
    /\ completions = <<>>
    /\ moods = <<>>
    /\ patient_messages = <<>>
    /\ inflight = <<>>
    /\ last = NoRequest

\* the response of an endpoint and what it leaves in the database
Answer(op, user, r) ==
    /\ Commit(r.d)
    /\ last' = [NoRequest EXCEPT !.op = op, !.user = user,
                                 !.status = r.status, !.view = r.view]

RecordsMade == Len(appointments) + Len(plans) + Len(notes) + Len(responses)

\* a patient account submits a survey
Intake ==
    /\ RoomForScreening
    /\ \E user \in AuthUsers : Submit("phq9", user, "", IntakeAnswers)
    /\ UNCHANGED <<scored, now>>

\* a patient account posts a screening to the CRUD endpoint
IntakeCrud ==
    /\ RoomForScreening
    /\ \E user \in AuthUsers, patient_field \in PatientFields :
           CrudCreate("phq9", user, "", patient_field, IntakeAnswers)
    /\ UNCHANGED <<scored, now>>

RunScoreTrends ==
    /\ Commit(process_score_trends(DB, now))
    /\ last' = [NoRequest EXCEPT !.op = "process_score_trends"]
    /\ UNCHANGED <<scored, now>>

CreateAssignment ==
    /\ Len(assignments) < MaxAssignments
    /\ \E user \in ClinicCallers, patient \in 0..Len(patients),
          clinician \in 1..Len(clinicians) :
           Answer("create_assignment", user,
                  AssignmentCreate(DB, user, patient, clinician))
    /\ UNCHANGED <<scored, now>>

DeactivateAssignment ==
    /\ \E user \in ClinicCallers, pk \in 1..MaxAssignments :
           Answer("deactivate_assignment", user,
                  AssignmentDeactivate(DB, user, pk))
    /\ UNCHANGED <<scored, now>>

CreateAppointment ==
    /\ RecordsMade < MaxRecords
    /\ \E user \in ClinicCallers, patient \in 0..Len(patients),
          data_clinician \in DataClinicians,
          scheduled_date \in ScheduledDates :
           Answer("create_appointment", user,
                  AppointmentCreate(DB, user, patient, data_clinician,
                                    scheduled_date))
    /\ UNCHANGED <<scored, now>>

CreateTreatmentPlan ==
    /\ RecordsMade < MaxRecords
    /\ \E user \in ClinicCallers, patient \in 0..Len(patients),
          data_clinician \in DataClinicians :
           Answer("create_treatment_plan", user,
                  TreatmentPlanCreate(DB, user, patient, data_clinician))
    /\ UNCHANGED <<scored, now>>

CreateClinicalNote ==
    /\ RecordsMade < MaxRecords
    /\ \E user \in ClinicCallers, patient \in 0..Len(patients),
          data_clinician \in DataClinicians :
           Answer("create_clinical_note", user,
                  ClinicalNoteCreate(DB, user, patient, data_clinician))
    /\ UNCHANGED <<scored, now>>

CreateAlertResponse ==
    /\ RecordsMade < MaxRecords
    /\ \E user \in ClinicCallers, alert \in 0..Len(alerts),
          data_clinician \in DataClinicians :
           Answer("create_alert_response", user,
                  AlertResponseCreate(DB, user, alert, data_clinician, now))
    /\ UNCHANGED <<scored, now>>

ListPatientTrends ==
    /\ \E user \in ClinicCallers :
           Answer("list_patient_trends", user, PatientTrendList(DB, user))
    /\ UNCHANGED <<scored, now>>

ListAppointments ==
    /\ \E user \in ClinicCallers :
           Answer("list_appointments", user, AppointmentList(DB, user))
    /\ UNCHANGED <<scored, now>>

ListTreatmentPlans ==
    /\ \E user \in ClinicCallers :
           Answer("list_treatment_plans", user, TreatmentPlanList(DB, user))
    /\ UNCHANGED <<scored, now>>

ListClinicalNotes ==
    /\ \E user \in ClinicCallers :
           Answer("list_clinical_notes", user, ClinicalNoteList(DB, user))
    /\ UNCHANGED <<scored, now>>

ListAlertResponses ==
    /\ \E user \in ClinicCallers :
           Answer("list_alert_responses", user, AlertResponseList(DB, user))
    /\ UNCHANGED <<scored, now>>

GetDashboardStats ==
    /\ \E user \in ClinicCallers :
           Answer("dashboard_stats", user, DashboardStats(DB, user, now))
    /\ UNCHANGED <<scored, now>>

NextClinic ==
    \/ Intake \/ IntakeCrud \/ RunScoreTrends
    \/ CreateAssignment \/ DeactivateAssignment
    \/ CreateAppointment \/ CreateTreatmentPlan \/ CreateClinicalNote
    \/ CreateAlertResponse
    \/ ListPatientTrends \/ ListAppointments \/ ListTreatmentPlans
    \/ ListClinicalNotes \/ ListAlertResponses \/ GetDashboardStats

SpecClinic == InitClinic /\ [][NextClinic]_vars

\* the endpoints that write or read ScreeningAlert rows: the screenings that
\* raise alerts and the clinicians' responses to them, with the assignments
NextAlerts ==
    \/ Intake \/ IntakeCrud \/ CreateAssignment
    \/ CreateAlertResponse \/ ListAlertResponses

SpecAlerts == InitClinic /\ [][NextAlerts]_vars

(***************************************************************************)
(* The identity-resolving endpoints as actions: POST and DELETE on         *)
(* patients/, POST chatbot/conversations/ and POST mood-entries/.          *)
(***************************************************************************)
\* the response of an identity-resolving endpoint
Identified(op, user, firebase_uid, r) ==
    /\ Commit(r.d)
    /\ last' = [NoRequest EXCEPT !.op = op, !.user = user,
                                 !.status = r.status, !.patient = r.patient,
                                 !.firebase_uid = firebase_uid]

RoomForPatient == Len(patients) < MaxPatients

CreatePatient ==
    /\ RoomForPatient
    /\ \E user \in Callers, data_uid \in FirebaseUids :
           Identified("create_patient", user, data_uid,
                      PatientViewSetCreate(DB, user, data_uid))
    /\ UNCHANGED <<scored, now>>

DestroyPatient ==
    /\ \E user \in Callers, query_uid \in FirebaseUids,
          pk \in 1..Len(patients) :
           Identified("destroy_patient", user, query_uid,
                      PatientViewSetDestroy(DB, user, query_uid, pk))
    /\ UNCHANGED <<scored, now>>

StartConversation ==
    /\ RoomForPatient
    /\ Len(conversations) < MaxChats
    /\ \E user \in Callers, data_uid \in FirebaseUids :
           Identified("create_conversation", user, data_uid,
                      ConversationCreate(DB, user, data_uid))
    /\ UNCHANGED <<scored, now>>

CreateMoodEntry ==
    /\ RoomForPatient
    /\ Len(moods) < MaxMoods
    /\ \E user \in Callers, data_uid \in FirebaseUids,
          mood_level \in {0, 4} :
           Identified("create_mood_entry", user, data_uid,
                      MoodEntryCreate(DB, user, data_uid, mood_level))
    /\ UNCHANGED <<scored, now>>

NextIdentity ==
    CreatePatient \/ DestroyPatient \/ StartConversation \/ CreateMoodEntry

SpecIdentity == Init /\ [][NextIdentity]_vars

(***************************************************************************)
(* The patient's screening endpoints as actions: the survey submissions    *)
(* and the reads of what they stored.                                      *)
(***************************************************************************)
Kinds == {"phq9", "gad7"}

\* the answers a patient submits: PHQ-9 totals 0, 8, 14 and 16, GAD-7 totals
\* 0, 8, 14 and 15 (risk low, medium, high and critical)
SurveyInputs(kind) ==
    IF kind = "phq9" THEN {Vec9(0, 0), Vec9(8, 0), Vec9(14, 0), Vec9(16, 0)}
    ELSE {Vec7(0), Vec7(8), Vec7(14), Vec7(15)}

\* answer vectors that are not one: empty, one short, one long, an entry
\* above 3, an entry below 0
MalformedInputs(kind) ==
    IF kind = "phq9"
    THEN {<<>>, SubSeq(Vec9(8, 0), 1, PHQ9Len - 1), Append(Vec9(8, 0), 0),
          [Vec9(8, 0) EXCEPT ![9] = 4], [Vec9(8, 0) EXCEPT ![1] = -1]}
    ELSE {<<>>, SubSeq(Vec7(8), 1, GAD7Len - 1), Append(Vec7(8), 0),
          [Vec7(8) EXCEPT ![7] = 4], [Vec7(8) EXCEPT ![1] = -1]}

\* the answers of an update: totals 0 and 16 (15), and an entry above 3
UpdateInputs(kind) ==
    IF kind = "phq9"
    THEN {Vec9(0, 0), Vec9(16, 0), [Vec9(8, 0) EXCEPT ![9] = 4]}
    ELSE {Vec7(0), Vec7(15), [Vec7(8) EXCEPT ![7] = 4]}

SubmitSurvey ==
    /\ RoomForScreening
    /\ \E user \in AuthUsers, kind \in Kinds :
           \E answers \in SurveyInputs(kind) : Submit(kind, user, "", answers)
    /\ UNCHANGED <<scored, now>>

SubmitMalformed ==
    /\ \E user \in AuthUsers, kind \in Kinds :
           \E answers \in MalformedInputs(kind) :
               Submit(kind, user, "", answers)
    /\ UNCHANGED <<scored, now>>

UpdateScreening ==
    /\ \E user \in AuthUsers, kind \in Kinds, pk \in 1..MaxScreenings :
           \E answers \in UpdateInputs(kind) :
               Answer("update_" \o kind, user,
                      ScreeningUpdate(DB, user, kind, pk, answers))
    /\ UNCHANGED <<scored, now>>

GetLatest ==
    /\ \E user \in AuthUsers, kind \in Kinds :
           Answer("latest_" \o kind, user, ScreeningLatest(DB, user, kind))
    /\ UNCHANGED <<scored, now>>

GetSummary ==
    /\ \E user \in AuthUsers :
           Answer("screening_summary", user, ScreeningSummary(DB, user))
    /\ UNCHANGED <<scored, now>>

GetRecommended ==
    /\ \E user \in AuthUsers :
           Answer("recommended_pathways", user, RecommendedPathways(DB, user))
    /\ UNCHANGED <<scored, now>>

NextPatient ==
    \/ SubmitSurvey \/ UpdateScreening
    \/ GetLatest \/ GetSummary \/ GetRecommended

SpecPatient == Init /\ [][NextPatient]_vars

\* the survey submissions alone, well-formed and malformed
NextSurvey == SubmitSurvey \/ SubmitMalformed

SpecSurvey == Init /\ [][NextSurvey]_vars

(***************************************************************************)
(* The self-care endpoints as actions: a mood entry, which gives the       *)
(* account its Patient, the start of a pathway and complete_exercise.      *)
(* One account uses self-care; the other one calls without a Patient.      *)
(***************************************************************************)
LogMood ==
    /\ Len(moods) < MaxMoods
    /\ Identified("create_mood_entry", "u1", "",
                  MoodEntryCreate(DB, "u1", "", 4))
    /\ UNCHANGED <<scored, now>>

StartPathway ==
    /\ Len(progress) < MaxProgress
    /\ \E user \in AuthUsers, pathway \in {1, 2} :
           Answer("create_progress", user,
                  ProgressCreate(DB, user, pathway, now))
    /\ UNCHANGED <<scored, now>>

CompleteExercise ==
    /\ Len(completions) < MaxCompletions
    /\ \E user \in AuthUsers, pk \in 1..MaxProgress,
          exercise_id \in {0, 1, UnknownExercise} :
           Answer("complete_exercise", user,
                  CompleteExerciseView(DB, user, pk, exercise_id, now))
    /\ UNCHANGED <<scored, now>>

NextSelfCare == LogMood \/ StartPathway \/ CompleteExercise

SpecSelfCare == Init /\ [][NextSelfCare]_vars

(***************************************************************************)
(* The requests that enqueue tasks, and the worker that runs them.         *)
(***************************************************************************)
MaxCheckIns == 1         \* PatientMessage rows
MaxRemovals == 1         \* Patient rows deleted
MaxJobRows == 3          \* rows written and deleted in one scenario

\* the rows the requests and the scheduled tasks have written or deleted
JobRows ==
    Len(messages) + Len(phq9s) + Len(gad7s) + Len(patient_messages)
    + Len(trends) + (Len(patients) - Cardinality(LivePatients(DB)))

\* the phone number a patient enters
PhoneNumbers == {"+15550100"}

\* the outcome of a run, as the worker's log has it
Logged(name, message, r) ==
    /\ Commit(r.d)
    /\ last' = [NoRequest EXCEPT
                  !.op = name,
                  !.view = [NoView EXCEPT
                              !.body = [message |-> message,
                                        raised |-> r.raised,
                                        email |-> r.email,
                                        sms |-> r.sms]]]

SetPhone ==
    /\ \E user \in AuthUsers, pk \in 1..Len(patients),
          phone_number \in PhoneNumbers :
           Identified("update_patient", user, "",
                      PatientUpdate(DB, user, pk, phone_number))
    /\ UNCHANGED <<scored, now>>

\* DELETE patients/<pk>/ by an unauthenticated caller
RemovePatient ==
    /\ Len(patients) - Cardinality(LivePatients(DB)) < MaxRemovals
    /\ JobRows < MaxJobRows
    /\ \E pk \in 1..Len(patients) :
           Identified("destroy_patient", NULL, "",
                      PatientViewSetDestroy(DB, NULL, "", pk))
    /\ UNCHANGED <<scored, now>>

\* the worker takes the oldest message off the queue and runs its task
RunTask ==
    /\ tasks # <<>>
    /\ \E mail_ok \in BOOLEAN, twilio \in TwilioOutcomes :
           Logged("run_" \o tasks[1].task, tasks[1],
               RunOf([DB EXCEPT !.tasks = Tail(@)], tasks[1], mail_ok, twilio))
    /\ UNCHANGED <<scored, now>>

\* the scheduler runs send_weekly_check_in for a patient id
RunWeeklyCheckIn ==
    /\ Len(patient_messages) < MaxCheckIns
    /\ JobRows < MaxJobRows
    /\ \E patient_id \in 1..Len(patients), mail_ok \in BOOLEAN,
          message \in CheckInMessages :
           Logged("run_send_weekly_check_in",
               [task |-> "send_weekly_check_in", arg |-> patient_id],
               send_weekly_check_in(DB, patient_id, message, mail_ok, now))
    /\ UNCHANGED <<scored, now>>

\* the scheduler runs process_score_trends
RunTrends ==
    /\ JobRows < MaxJobRows
    /\ Logged("run_process_score_trends", [task |-> "process_score_trends"],
           Returned(process_score_trends(DB, now), FALSE, FALSE))
    /\ UNCHANGED <<scored, now>>

\* the account u1 posts a PHQ-9 to the CRUD endpoint, for Patient 1
RecordScreening ==
    /\ RoomForScreening
    /\ JobRows < MaxJobRows
    /\ CrudCreate("phq9", "u1", "", 1, IntakeAnswers)
    /\ UNCHANGED <<scored, now>>

\* the account u1 opens a conversation
OpenConversation ==
    /\ Len(conversations) < MaxConversations
    /\ \E r \in {ConversationCreate(DB, "u1", "")} :
           /\ Commit(r.d)
           /\ last' = [NoRequest EXCEPT
                         !.op = "create_conversation",
                         !.status = r.status,
                         !.patient = r.patient,
                         !.chat = [NoChat EXCEPT
                                     !.conversation = r.conversation,
                                     !.owner = r.patient]]
    /\ UNCHANGED <<scored, now>>

\* send_message of the account u1 on conversation 1 saying it wants to die
SendCrisisMessage ==
    /\ Turns < MaxTurns
    /\ JobRows < MaxJobRows
    /\ \E found \in {ResolveConversation(DB, "u1", "", 1)} :
           IF found.status # 0
           THEN Respond(found)
           ELSE \E r \in {Converse(found.d, found.chat, "I want to die",
                                   [kind |-> "missing"])} :
                    Respond(r)
    /\ UNCHANGED <<scored, now>>

NextJobs ==
    \/ OpenConversation \/ SendCrisisMessage \/ RecordScreening
    \/ SetPhone \/ RemovePatient
    \/ RunTask \/ RunWeeklyCheckIn \/ RunTrends

SpecJobs == Init /\ [][NextJobs]_vars

\* a week goes by: screenings of the day before are still within the
\* seven days of process_score_trends
WeekPasses ==
    /\ now + RecentDays <= MaxNow
    /\ now' = now + RecentDays
    /\ UNCHANGED <<scored, users, patients, phq9s, gad7s, alerts, referrals,
                   tasks, conversations, messages, clinicVars, careVars,
                   last>>

\* a patient account submits a survey: PHQ-9 totals 8 and 16, GAD-7 totals
\* 0 and 14
TakeSurvey ==
    /\ RoomForScreening
    /\ \E user \in AuthUsers, kind \in Kinds :
           \E answers \in IF kind = "phq9" THEN {Vec9(8, 0), Vec9(16, 0)}
                          ELSE {Vec7(0), Vec7(14)} :
               Submit(kind, user, "", answers)
    /\ UNCHANGED <<scored, now>>

NextTrends ==
    \/ TakeSurvey
    \/ Tick \/ WeekPasses
    \/ RunScoreTrends

SpecTrends == Init /\ [][NextTrends]_vars

MaxSends == 3      \* send_message requests

\* the messages of concurrent requests: one that raises the crisis alert
\* and one that does not
ConcurrentTexts == {"I want to die", "I feel very sad and hopeless"}

\* a send_message request of u1 arrives and gets as far as its user message
ReceiveMessage ==
    /\ Turns < MaxSends
    /\ \E pk \in 1..Len(conversations), message \in ConcurrentTexts :
           \E found \in {ResolveConversation(DB, "u1", "", pk)} :
               /\ found.status = 0
               /\ Commit(SaveUserMessage(found.d, found.chat, message,
                                         [kind |-> "missing"]))
               /\ last' = [NoRequest EXCEPT !.op = "send_message_received",
                                            !.patient = found.chat.owner]
    /\ UNCHANGED <<scored, now>>

\* a send_message request in flight goes on to its reply and returns
ReplyToMessage ==
    /\ \E i \in 1..Len(inflight) :
           /\ inflight[i].handler = "send_message"
           /\ Respond(SaveBotResponse(DB, i))
    /\ UNCHANGED <<scored, now>>

\* u1 reads a conversation
GetMessages ==
    /\ \E pk \in 1..MaxConversations :
           Answer("messages", "u1", ConversationMessages(DB, "u1", "", pk))
    /\ UNCHANGED <<scored, now>>

NextTurns ==
    \/ OpenConversation
    \/ ReceiveMessage \/ ReplyToMessage
    \/ GetMessages

SpecTurns == Init /\ [][NextTurns]_vars

\* thresholds a caller passes, in hundredths: none, the chatbot's, the
\* default, and one no confidence reaches
Thresholds == {0, 40, DEFAULT_CONFIDENCE_THRESHOLD, 100}

\* a caller asks for the intent of a text
\* predict_intent reads no table: its calls are explored on the empty database
PredictIntent ==
    /\ conversations = <<>>
    /\ \E text \in Texts, clf \in ClassifierOutcomes,
          confidence_threshold \in Thresholds :
           last' = [NoRequest EXCEPT
                      !.op = "predict_intent",
                      !.view = [NoView EXCEPT
                                  !.body =
                                    [text |-> text, clf |-> clf,
                                     confidence_threshold |->
                                         confidence_threshold,
                                     result |->
                                         predict_intent(text, clf,
                                             confidence_threshold)]]]
    /\ UNCHANGED <<scored, now, users, patients, phq9s, gad7s, alerts,
                   referrals, tasks, conversations, messages, clinicVars,
                   careVars>>

\* u1 sends a message to its conversation, whatever the classifier does
SendClassified ==
    /\ Turns < MaxTurns
    /\ \E pk \in 1..Len(conversations), message \in Texts,
          clf \in ClassifierOutcomes :
           \E found \in {ResolveConversation(DB, "u1", "", pk)} :
               /\ found.status = 0
               /\ \E r \in {Converse(found.d, found.chat, message, clf)} :
                      /\ Commit(r.d)
                      /\ last' = [NoRequest EXCEPT
                                    !.op = "send_message",
                                    !.status = IF r.status = 0 THEN 200
                                               ELSE r.status,
                                    !.patient = found.chat.owner,
                                    !.chat = r.chat,
                                    !.view = [NoView EXCEPT
                                                !.body = [clf |-> clf]]]
    /\ UNCHANGED <<scored, now>>

NextIntent == PredictIntent \/ OpenConversation \/ SendClassified

SpecIntent == Init /\ [][NextIntent]_vars

MaxPosted == 3     \* screenings posted to the CRUD endpoints

\* PHQ-9 totals 8 and 14, and 8 with suicidal ideation; GAD-7 totals 0
\* and 8
PostedAnswers(kind) ==
    IF kind = "phq9" THEN {Vec9(8, 0), Vec9(14, 0), Vec9(6, 2)}
    ELSE {Vec7(0), Vec7(8)}

\* u1 posts a screening to the CRUD endpoint
PostScreening ==
    /\ Len(phq9s) + Len(gad7s) < MaxPosted
    /\ \E kind \in Kinds : \E answers \in PostedAnswers(kind) :
           CrudCreate(kind, "u1", "", 1, answers)
    /\ UNCHANGED <<scored, now>>

NextLegacy ==
    \/ OpenConversation \/ PostScreening
    \/ Tick \/ WeekPasses

SpecLegacy == Init /\ [][NextLegacy]_vars

(***************************************************************************)
(* submit_phq9 as the server runs it next to other requests: the screening *)
(* is persisted (survey_views.py 58-79), and process_triage is a later     *)
(* step (81-87) that reads the table as it then is.                        *)
(***************************************************************************)
MaxSubmissions == 2    \* submit_phq9 requests

\* PHQ-9 totals 0, 8 and 14
InterleavedAnswers == {Vec9(0, 0), Vec9(8, 0), Vec9(14, 0)}

\* submit_phq9 up to and including PHQ9Screening.objects.create
PersistSubmission ==
    /\ Len(phq9s) < MaxSubmissions
    /\ \E answers \in InterleavedAnswers :
           \E got \in {SurveyGetOrCreatePatient(DB, "u1", "")} :
               /\ ~got.error
               /\ Commit([got.d EXCEPT
                     !.phq9s = Append(@, [PHQ9Save(NewPHQ9(got.patient, answers))
                                            EXCEPT !.created_at = now]),
                     !.inflight = Append(@,
                         [handler |-> "submit_phq9",
                          patient |-> got.patient,
                          screening |-> Len(got.d.phq9s) + 1,
                          score_result |-> CalculatePHQ9(answers)])])
               /\ last' = [NoRequest EXCEPT !.op = "submit_phq9_persisted",
                                            !.patient = got.patient,
                                            !.screening = Len(got.d.phq9s) + 1]
    /\ UNCHANGED <<scored, now>>

\* a submit_phq9 request in flight goes on to process_triage and returns;
\* `compared` is the screening _check_score_increase finds
TriageSubmission ==
    /\ \E i \in 1..Len(inflight) :
           /\ inflight[i].handler = "submit_phq9"
           /\ \E request \in {inflight[i]},
                 d1 \in {[DB EXCEPT !.inflight = Without(@, i)]} :
                  \E run \in {SubmitTriage(d1, "phq9", request.screening,
                                   request.patient, request.score_result,
                                   now)} :
                      /\ Commit(run.tr.d)
                      /\ last' = [NoRequest EXCEPT
                            !.op = "submit_phq9",
                            !.user = "u1",
                            !.status = 201,
                            !.screening = request.screening,
                            !.patient = request.patient,
                            !.rule = Created(run.legacy, run.tr.d),
                            !.result = run.tr.result,
                            !.view = [NoView EXCEPT !.body =
                                [compared |->
                                    LatestInWindow(d1.phq9s, request.patient,
                                                   now, 0)]]]
    /\ UNCHANGED <<scored, now>>

NextSubmissions ==
    \/ PersistSubmission \/ TriageSubmission
    \/ WeekPasses

SpecSubmissions == Init /\ [][NextSubmissions]_vars

(***************************************************************************)
(* complete_exercise as the server runs it next to other requests: the     *)
(* handler loads the progress row (get_object), creates the completion,    *)
(* and later saves the row it loaded with the new percentage.  Nothing     *)
(* locks the row and there is no transaction around the two.               *)
(***************************************************************************)
MaxExercises == 3      \* complete_exercise requests

\* complete_exercise of u1 on progress row 1 up to and including
\* ExerciseCompletion.objects.create: `progress` is the row as loaded
RecordCompletion ==
    /\ Len(completions) < MaxExercises
    /\ 1 \in 1..Len(progress)
    /\ progress[1].patient = PatientByUser(DB, "u1")
    /\ Commit([DB EXCEPT
          !.completions = Append(@, [patient |-> progress[1].patient,
                                     exercise |-> 1,
                                     completed_at |-> now]),
          !.inflight = Append(@, [handler |-> "complete_exercise",
                                  pk |-> 1,
                                  progress |-> progress[1]])])
    /\ last' = [NoRequest EXCEPT !.op = "complete_exercise_recorded",
                                 !.user = "u1"]
    /\ UNCHANGED <<scored, now>>

\* a complete_exercise request in flight goes on to progress.save() and
\* returns
SaveProgress ==
    /\ \E i \in 1..Len(inflight) :
           /\ inflight[i].handler = "complete_exercise"
           /\ Answer("complete_exercise", "u1",
                  [status |-> 200,
                   d |-> [DB EXCEPT
                            !.progress[inflight[i].pk] =
                                UpdateProgress(inflight[i].progress, now),
                            !.inflight = Without(@, i)],
                   view |-> [NoView EXCEPT !.rows = {inflight[i].pk}]])
    /\ UNCHANGED <<scored, now>>

NextExercises ==
    \/ OpenConversation \/ StartPathway
    \/ RecordCompletion \/ SaveProgress

SpecExercises == Init /\ [][NextExercises]_vars

(***************************************************************************)
(* Claims.                                                                 *)
(***************************************************************************)
Total9(a) == a[1] + a[2] + a[3] + a[4] + a[5] + a[6] + a[7] + a[8] + a[9]
Total7(a) == a[1] + a[2] + a[3] + a[4] + a[5] + a[6] + a[7]

\* the risk fields the scoring rule gives for a total and a critical test
RiskAsSpecified(row, total, critical) ==
    IF critical
    THEN /\ row.risk_level = "critical"
         /\ row.requires_immediate_attention
         /\ row.requires_teleconsult
    ELSE IF total >= 10
    THEN /\ row.risk_level = "high"
         /\ ~row.requires_immediate_attention
         /\ row.requires_teleconsult
    ELSE IF total >= 5
    THEN row.risk_level = "medium"
    ELSE /\ row.risk_level = "low"
         /\ ~row.requires_immediate_attention
         /\ ~row.requires_teleconsult

\* C1: a newly saved screening's risk_level and its two flags are the
\* scoring rule's function of its answers: PHQ-9 critical with both flags
\* iff total >= 15 or q9 >= 2, else high with only requires_teleconsult iff
\* total >= 10, else medium iff total >= 5, else low with no flag; GAD-7 the
\* same on the total alone (15 is severe/critical, 14 is moderate/high).
C1_RiskFieldsOnSave ==
    /\ (scored.kind = "phq9" /\ scored.done) =>
           LET total == Total9(scored.answers)
           IN  /\ scored.saved.total_score = total
               /\ RiskAsSpecified(scored.saved, total,
                                  total >= 15 \/ scored.answers[9] >= 2)
    /\ (scored.kind = "gad7" /\ scored.done) =>
           LET total == Total7(scored.answers)
           IN  /\ scored.saved.total_score = total
               /\ RiskAsSpecified(scored.saved, total, total >= 15)
               /\ (total = 15 => /\ scored.saved.severity_level = "severe"
                                 /\ scored.saved.risk_level = "critical")
               /\ (total = 14 => /\ scored.saved.severity_level = "moderate"
                                 /\ scored.saved.risk_level = "high")

\* a PHQ-9 below 15 that is critical only through its ninth answer
C1_Witness ==
    /\ scored.kind = "phq9" /\ scored.done
    /\ Total9(scored.answers) = 8 /\ scored.answers[9] = 2
    /\ scored.saved.risk_level = "critical"
    /\ scored.saved.requires_immediate_attention

\* C2: the save path and the Rule Engine's calculate functions give the
\* same total_score and severity_level for every valid answer vector.
C2_ScoringAgrees ==
    (scored.kind \in {"phq9", "gad7"} /\ scored.done) =>
        /\ ~scored.calc.error
        /\ scored.saved.total_score = scored.calc.total_score
        /\ scored.saved.severity_level = scored.calc.severity_level

\* a band edge: PHQ-9 total 14, moderate on both paths
C2_Witness ==
    /\ scored.kind = "phq9" /\ scored.done
    /\ scored.calc.total_score = 14
    /\ scored.saved.severity_level = "moderate"
    /\ scored.calc.severity_level = "moderate"

(***************************************************************************)
(* Claims about the engines, on the last request.                          *)
(***************************************************************************)
Ran(op) == last.op = op /\ last.status = 201
RuleEngineRan == last.status = 201 /\ last.call.survey_type # NULL

CountType(rows, alert_type) ==
    Cardinality({i \in 1..Len(rows) : rows[i].alert_type = alert_type})

\* C3: process_triage for an existing patient with score >= 15 (either
\* instrument) returns TriggerReferral, referralCreated and no module, and
\* creates exactly one TeleconsultReferral for that patient, priority high,
\* status pending; with score < 15 it creates no referral.
C3_ReferralRule ==
    RuleEngineRan =>
        IF last.call.score >= 15
        THEN /\ last.result.triageAction = "TriggerReferral"
             /\ last.result.referralCreated
             /\ last.result.recommendedModule = NULL
             /\ Len(last.rule.referrals) = 1
             /\ last.rule.referrals[1].patient = last.patient
             /\ last.rule.referrals[1].priority = "high"
             /\ last.rule.referrals[1].status = "pending"
        ELSE /\ last.rule.referrals = <<>>
             /\ ~last.result.referralCreated

\* a GAD-7 of 15 submitted through the survey API, referred
C3_Witness ==
    /\ Ran("submit_gad7")
    /\ last.call.score = 15
    /\ Len(last.rule.referrals) = 1
    /\ last.result.triageAction = "TriggerReferral"

\* the PHQ-9 row the patient of the last request recorded just before the
\* row of the last request; 0 when there is none
EarlierPHQ9 ==
    LET S == {i \in 1..(last.screening - 1) :
                 phq9s[i].patient = last.patient}
    IN  IF S = {} THEN 0 ELSE MaxOf(S)

\* C4: a second PHQ-9 within 14 days of the patient's previous one, recorded
\* through submit_phq9 or the CRUD create, whose score is at least 5 higher
\* and below 15, is triaged by the Rule Engine as TriggerClinicianAlert with
\* one score_increase alert.
C4_TrendAlertOnSecondScreening ==
    ((Ran("submit_phq9") \/ Ran("create_phq9")) /\ EarlierPHQ9 # 0) =>
        LET s1 == phq9s[EarlierPHQ9]
            s2 == phq9s[last.screening]
        IN  (/\ s2.created_at - s1.created_at <= WindowDays
             /\ s2.total_score - s1.total_score >= 5
             /\ s2.total_score < 15)
            => /\ last.result.triageAction = "TriggerClinicianAlert"
               /\ CountType(last.rule.alerts, "score_increase") = 1

SelfCareTable(survey_type, severity_level) ==
    CASE survey_type = "gad7" /\ severity_level \in {"minimal", "mild"} ->
            "4-7-8 Breathing"
      [] survey_type = "phq9" /\ severity_level \in {"minimal", "mild"} ->
            "Mindfulness Meditation"
      [] survey_type = "gad7" /\ severity_level = "moderate" ->
            "Progressive Muscle Relaxation"
      [] survey_type = "phq9" /\ severity_level = "moderate" ->
            "Journaling and Gratitude"
      [] OTHER -> "Guided Relaxation Exercises"

\* C5: the self-care rule runs only when neither the referral rule nor the
\* trend-alert rule set an action: recommendedModule is non-null iff
\* triageAction = RecommendSelfCare, the module is then the table's entry
\* for (survey_type, severity_level), and triageAction "None" is returned
\* exactly when no rule applied.
C5_SelfCareRule ==
    RuleEngineRan =>
        LET r == last.result
        IN  /\ (r.recommendedModule # NULL) <=> (r.triageAction = "RecommendSelfCare")
            /\ (r.referralCreated \/ r.alertCreated) => r.recommendedModule = NULL
            /\ r.triageAction = "RecommendSelfCare" =>
                   /\ ~r.referralCreated /\ ~r.alertCreated
                   /\ last.rule.referrals = <<>> /\ last.rule.alerts = <<>>
                   /\ r.recommendedModule =
                          SelfCareTable(last.call.survey_type,
                                        last.call.severity_level)
            /\ (r.triageAction = "None") <=>
                   (~r.referralCreated /\ ~r.alertCreated
                    /\ r.recommendedModule = NULL)

\* a moderate GAD-7: progressive muscle relaxation
C5_Witness ==
    /\ RuleEngineRan
    /\ last.call.survey_type = "gad7"
    /\ last.call.severity_level = "moderate"
    /\ last.result.triageAction = "RecommendSelfCare"
    /\ last.result.recommendedModule = "Progressive Muscle Relaxation"

\* C6: for a PHQ-9 with q9 >= 2 the Legacy Triage Engine creates exactly one
\* alert, of type suicidal_ideation with a critical notification, and
\* exactly one referral, urgent with reason "Suicidal ideation detected",
\* and nothing else: no phq9_high_score alert, no high-priority referral,
\* no score_increase alert, whatever the total and the earlier screenings.
C6_LegacyCrisisStops ==
    (Ran("create_phq9") /\ phq9s[last.screening].answers[9] >= 2) =>
        /\ Len(last.legacy.alerts) = 1
        /\ last.legacy.alerts[1].alert_type = "suicidal_ideation"
        /\ last.legacy.alerts[1].patient = last.patient
        /\ Len(last.legacy.referrals) = 1
        /\ last.legacy.referrals[1].priority = "urgent"
        /\ last.legacy.referrals[1].reason = "Suicidal ideation detected"
        /\ last.legacy.referrals[1].patient = last.patient
        /\ Cardinality({i \in 1..Len(last.legacy.tasks) :
               /\ last.legacy.tasks[i].task = "send_alert_notification"
               /\ last.legacy.tasks[i].arg \in last.legacy.alert_ids
               /\ last.legacy.tasks[i].priority = "critical"}) = 1
        /\ Cardinality({i \in 1..Len(last.legacy.tasks) :
               last.legacy.tasks[i].task = "send_alert_notification"}) = 1

\* q9 = 3, total 17, five or more above the same patient's earlier PHQ-9
C6_Witness ==
    /\ Ran("create_phq9")
    /\ phq9s[last.screening].answers[9] >= 2
    /\ phq9s[last.screening].total_score >= 15
    /\ EarlierPHQ9 # 0
    /\ phq9s[last.screening].total_score - phq9s[EarlierPHQ9].total_score >= 5
    /\ Len(last.legacy.alerts) = 1

AllAlerts == last.legacy.alerts \o last.rule.alerts
AllReferrals == last.legacy.referrals \o last.rule.referrals

\* C7: the CRUD create runs the Legacy Triage Engine and the Rule Engine, so
\* a PHQ-9 with total >= 15 and q9 < 2 yields two referrals, one from each
\* engine, and one phq9_high_score alert; the same answers through
\* submit_phq9 run only the Rule Engine: one referral, no high-score alert.
\* The same holds of GAD-7 with gad7_high_score.
C7_EnginesPerEntryPoint ==
    /\ (Ran("create_phq9") /\ phq9s[last.screening].total_score >= 15
                           /\ phq9s[last.screening].answers[9] < 2) =>
           /\ Len(last.legacy.referrals) = 1
           /\ Len(last.rule.referrals) = 1
           /\ CountType(AllAlerts, "phq9_high_score") = 1
    /\ (Ran("submit_phq9") /\ phq9s[last.screening].total_score >= 15
                           /\ phq9s[last.screening].answers[9] < 2) =>
           /\ last.legacy.referrals = <<>> /\ last.legacy.alerts = <<>>
           /\ Len(AllReferrals) = 1
           /\ CountType(AllAlerts, "phq9_high_score") = 0
    /\ (Ran("create_gad7") /\ gad7s[last.screening].total_score >= 15) =>
           /\ Len(last.legacy.referrals) = 1
           /\ Len(last.rule.referrals) = 1
           /\ CountType(AllAlerts, "gad7_high_score") = 1
    /\ (Ran("submit_gad7") /\ gad7s[last.screening].total_score >= 15) =>
           /\ last.legacy.referrals = <<>> /\ last.legacy.alerts = <<>>
           /\ Len(AllReferrals) = 1
           /\ CountType(AllAlerts, "gad7_high_score") = 0

\* a PHQ-9 of 16 without suicidal ideation created through the CRUD endpoint
C7_Witness ==
    /\ Ran("create_phq9")
    /\ phq9s[last.screening].total_score = 16
    /\ phq9s[last.screening].answers[9] = 0
    /\ Len(AllReferrals) = 2

(***************************************************************************)
(* Claims about the chatbot, on the last request.                          *)
(***************************************************************************)
ChatAnswered == last.op = "send_message" /\ last.status = 200

\* the ChatbotMessage rows of the turn just answered
UserRow == messages[Len(messages) - 1]
BotRow == messages[Len(messages)]

\* C8: when the detector reports risk_level critical or a risk keyword for
\* a message, the reply of send_message is the crisis safety template and
\* none of the intent, navigation or emotion templates, whatever the
\* classifier does, whatever navigation words the message has and whatever
\* the patient's screenings; and a message with a risk keyword is assessed
\* critical.
C8_CrisisReplyFirst ==
    ChatAnswered =>
        LET c == last.chat
            detected == Analysis[c.text].emotional_context
        IN  /\ c.risk_level = detected.risk_level
            /\ c.risk_keywords = detected.risk_keywords
            /\ (detected.risk_level = "critical" \/ detected.risk_keywords # <<>>) =>
                   /\ c.reply = CrisisTemplate
                   /\ BotRow.message_type = "bot"
                   /\ BotRow.content = CrisisTemplate
                   /\ \A t \in TemplatedIntents :
                          c.reply # IntentResponse(t, c.triage_recommendation)
                   /\ c.reply # OutOfScopeResponse(StrLower(c.text))
                   /\ c.reply # EmotionResponse(c.text, c.primary_emotion,
                                                c.triage_recommendation)
            /\ detected.risk_keywords # <<>> =>
                   /\ detected.risk_level = "critical"
                   /\ UserRow.risk_level = "critical"

\* a message with a self-care navigation keyword and a suicidal phrase, from
\* a patient with a screening on record, answered with the crisis template
C8_Witness ==
    /\ ChatAnswered
    /\ Contains(StrLower(last.chat.text), "self care")
    /\ last.chat.risk_keywords = <<"suicidal_ideation">>
    /\ last.chat.triage_recommendation # NULL
    /\ last.chat.reply = CrisisTemplate

\* C9: a successful send_message creates exactly one ScreeningAlert of type
\* crisis for the conversation's patient and enqueues exactly one
\* critical-priority send_alert_notification for it iff the message's
\* risk_level is critical, and neither otherwise; the alert is written after
\* the user message and the bot message, the notification after the alert.
C9_CrisisAlertIffCritical ==
    ChatAnswered =>
        LET c == last.chat
        IN  /\ c.new_messages = 2
            /\ UserRow.message_type = "user" /\ BotRow.message_type = "bot"
            /\ IF c.risk_level = "critical"
               THEN /\ Len(c.created.alerts) = 1
                    /\ c.created.alerts[1].alert_type = "crisis"
                    /\ c.created.alerts[1].patient = c.owner
                    /\ c.created.alert_ids = {Len(alerts)}
                    /\ c.created.tasks =
                           << [task |-> "send_alert_notification",
                               arg |-> Len(alerts),
                               priority |-> "critical"] >>
                    /\ c.writes = <<"ChatbotMessage", "ChatbotMessage",
                                    "ScreeningAlert", "send_alert_notification">>
               ELSE /\ c.created.alerts = <<>>
                    /\ c.created.tasks = <<>>
                    /\ c.writes = <<"ChatbotMessage", "ChatbotMessage">>

\* a critical message answered: its alert and its notification
C9_Witness ==
    /\ ChatAnswered
    /\ last.chat.risk_level = "critical"
    /\ Len(last.chat.created.alerts) = 1
    /\ alerts[Len(alerts)].alert_type = "crisis"
    /\ Len(last.chat.created.tasks) = 1

\* C10: send_message appends messages to a conversation only when the
\* conversation's owner is the Patient that identity resolution yields for
\* the caller; any other caller is refused and neither a ChatbotMessage nor
\* a ScreeningAlert is persisted.
C10_OnlyOwnerPosts ==
    last.op = "send_message" =>
        /\ last.status = 200 => last.chat.owner = last.chat.resolved
        /\ last.status # 200 =>
               /\ last.chat.new_messages = 0
               /\ last.chat.created.alerts = <<>>

(***************************************************************************)
(* Claims about the clinician app.                                         *)
(***************************************************************************)
ClinicLists ==
    {"list_patient_trends", "list_appointments", "list_treatment_plans",
     "list_clinical_notes", "list_alert_responses", "dashboard_stats"}

\* C11: whatever a clinician-scoped list endpoint (patient trends,
\* appointments, treatment plans, clinical notes, alert responses) returns,
\* and whatever the dashboard statistics count, belongs to a patient with an
\* active PatientAssignment to the calling clinician
C11_ListsScopedToAssignments ==
    (last.op \in ClinicLists /\ last.status = 200)
        => last.view.patients \subseteq AssignedPatients(DB, last.view.clinician)

\* a response to alert a by a registered clinician is on record
Responded(a) ==
    \E i \in 1..Len(responses) :
        /\ responses[i].alert = a
        /\ responses[i].clinician \in 1..Len(clinicians)

AlertResponseSaved ==
    last.op = "create_alert_response" /\ last.status = 201

\* C20: an alert is resolved, with resolved_at set, only if an AlertResponse
\* naming it has been created by a clinician; a step changes is_resolved
\* only from false to true and only when it is the successful creation of
\* an AlertResponse naming that alert; and after every successful creation
\* of an AlertResponse the alert it names is resolved
C20_ResolvedOnlyByResponse ==
    /\ [](/\ \A a \in 1..Len(alerts) :
                /\ alerts[a].is_resolved => Responded(a)
                /\ alerts[a].is_resolved <=> alerts[a].resolved_at # Never
          /\ AlertResponseSaved =>
                \A a \in last.view.rows :
                    alerts[a].is_resolved /\ Responded(a))
    /\ [][\A a \in 1..Len(alerts) :
              alerts'[a].is_resolved # alerts[a].is_resolved =>
                  /\ alerts'[a].is_resolved
                  /\ last'.op = "create_alert_response"
                  /\ last'.status = 201
                  /\ last'.view.rows = {a}
                  /\ Len(responses') = Len(responses) + 1]_vars

\* a clinician has answered the alert raised by a patient's screening
C20_Witness ==
    /\ AlertResponseSaved
    /\ last.view.rows = {1}
    /\ alerts[1].is_resolved /\ alerts[1].resolved_at = now
    /\ alerts[1].alert_type = "suicidal_ideation"
    /\ responses = <<[alert |-> 1, clinician |-> last.view.clinician]>>

(***************************************************************************)
(* Claims about Patient rows and identity resolution.                      *)
(***************************************************************************)
\* C12: a Patient row, once created, is never removed: every step keeps
\* every Patient there is
C12_PatientNeverRemoved ==
    [][/\ Len(patients') >= Len(patients)
       /\ \A p \in LivePatients(DB) : patients'[p] = patients[p]]_vars

IdentityOps == {"create_patient", "create_conversation", "create_mood_entry"}

PatientsWithUid(firebase_uid) ==
    {p \in LivePatients(DB) : patients[p].firebase_uid = firebase_uid}

\* C13: no two Patients share a firebase_uid and no Account has two
\* Patients; after a Patient create, a conversation create or a mood-entry
\* create that carries a firebase_uid there is exactly one Patient with that
\* firebase_uid; and a conversation create by an unauthenticated caller with
\* no firebase_uid is answered with the one Patient of the Account
\* anonymous_user, whose firebase_uid is anonymous
C13_IdentityResolvedOnce ==
    /\ \A p, q \in LivePatients(DB) :
           p # q => /\ patients[p].firebase_uid # patients[q].firebase_uid
                    /\ patients[p].user # patients[q].user
    /\ (last.op \in IdentityOps /\ last.firebase_uid # "")
           => Cardinality(PatientsWithUid(last.firebase_uid)) = 1
    /\ (last.op = "create_conversation" /\ last.user = NULL
            /\ last.firebase_uid = "")
           => /\ last.status = 201
              /\ last.patient \in LivePatients(DB)
              /\ patients[last.patient] =
                     [user |-> "anonymous_user", firebase_uid |-> "anonymous",
                      phone_number |-> ""]

(***************************************************************************)
(* Claims about the patient's reads and updates of their screenings.       *)
(***************************************************************************)
\* the ids of the caller's screenings of an instrument
OwnScreenings(kind) ==
    {i \in 1..Len(ScreeningsOf(DB, kind)) :
        /\ PatientByUser(DB, last.user) # 0
        /\ ScreeningsOf(DB, kind)[i].patient = PatientByUser(DB, last.user)}

\* the fields the scoring rules give for the answers of a stored row
ScoredAsRuled(kind, row) ==
    /\ row.total_score = SumSeq(row.answers)
    /\ row.severity_level =
           IF kind = "phq9" THEN GetPHQ9Severity(row.total_score)
           ELSE GetGAD7Severity(row.total_score)
    /\ row.risk_level =
           IF \/ row.total_score >= 15
              \/ kind = "phq9" /\ row.answers[9] >= 2 THEN "critical"
           ELSE IF row.total_score >= 10 THEN "high"
           ELSE IF row.total_score >= 5 THEN "medium"
           ELSE "low"

LatestAsClaimed(kind) ==
    last.op = "latest_" \o kind =>
        IF OwnScreenings(kind) = {}
        THEN last.status = 404 /\ last.view.body = "No screenings found"
        ELSE /\ last.status = 200
             /\ last.view.rows = {MaxOf(OwnScreenings(kind))}
             /\ last.view.body = ScreeningsOf(DB, kind)[MaxOf(OwnScreenings(kind))]
             /\ ScoredAsRuled(kind, last.view.body)

\* C14: latest returns the caller's most recently created screening of the
\* instrument, scored as the scoring rules score its answers, and 404 "No
\* screenings found" when the caller has none
C14_LatestIsMostRecent == LatestAsClaimed("phq9") /\ LatestAsClaimed("gad7")

DerivedFields(row) ==
    <<row.total_score, row.severity_level, row.risk_level,
      row.requires_immediate_attention, row.requires_teleconsult>>

\* C15: the total_score, severity_level, risk_level,
\* requires_immediate_attention and requires_teleconsult of a stored
\* PHQ9Screening or GAD7Screening never change: every step leaves them as
\* they are on every row there is
C15_DerivedFieldsImmutable ==
    [][/\ \A i \in 1..Len(phq9s) :
              DerivedFields(phq9s'[i]) = DerivedFields(phq9s[i])
       /\ \A i \in 1..Len(gad7s) :
              DerivedFields(gad7s'[i]) = DerivedFields(gad7s[i])]_vars

SubmitOps == {"submit_phq9", "submit_gad7"}

\* the answers of the screening the last submission stored
SubmittedAnswers ==
    IF last.op = "submit_phq9" THEN phq9s[last.screening].answers
    ELSE gad7s[last.screening].answers

Vector(answers, len) ==
    Len(answers) = len /\ \A i \in 1..len : answers[i] \in 0..3

MostRecentRisk(kind) ==
    IF OwnScreenings(kind) = {} THEN "low"
    ELSE ScreeningsOf(DB, kind)[MaxOf(OwnScreenings(kind))].risk_level

RiskRank(risk_level) ==
    CASE risk_level = "critical" -> 3
      [] risk_level = "high" -> 2
      [] risk_level = "medium" -> 1
      [] OTHER -> 0

WorseRisk(a, b) == IF RiskRank(a) >= RiskRank(b) THEN a ELSE b

\* C17: the screening summary of a caller with a Patient gives as risk_level
\* the worse of the risk levels of the caller's most recent PHQ-9 and most
\* recent GAD-7 screening (critical > high > medium > low, low where there
\* is none), and requires_attention exactly when one of the two is high or
\* critical
C17_SummaryIsWorseOfLatest ==
    last.op = "screening_summary" /\ PatientByUser(DB, last.user) # 0 =>
        /\ last.status = 200
        /\ last.view.body.risk_level =
               WorseRisk(MostRecentRisk("phq9"), MostRecentRisk("gad7"))
        /\ last.view.body.requires_attention <=>
               \/ MostRecentRisk("phq9") \in {"high", "critical"}
               \/ MostRecentRisk("gad7") \in {"high", "critical"}

\* the score of the caller's most recent screening of an instrument, 0 when
\* the caller has none
MostRecentScore(kind) ==
    IF OwnScreenings(kind) = {} THEN 0
    ELSE ScreeningsOf(DB, kind)[MaxOf(OwnScreenings(kind))].total_score

TierOf(score) ==
    IF score >= 15 THEN "severe"
    ELSE IF score >= 10 THEN "moderate"
    ELSE IF score >= 5 THEN "mild"
    ELSE "minimal"

\* C18: the recommended pathways of a caller with a Patient are exactly the
\* active pathways whose target_severity is the tier of the higher of the
\* caller's most recent PHQ-9 and most recent GAD-7 scores (severe from 15,
\* moderate from 10, mild from 5, else minimal), with one instrument only
\* as with both, and minimal with no screening
C18_RecommendedByLatestScores ==
    last.op = "recommended_pathways" /\ PatientByUser(DB, last.user) # 0 =>
        /\ last.status = 200
        /\ last.view.rows =
               {i \in 1..Len(SelfCarePathways) :
                   /\ SelfCarePathways[i].is_active
                   /\ SelfCarePathways[i].target_severity =
                          TierOf(MaxOf({MostRecentScore("phq9"),
                                        MostRecentScore("gad7")}))}

\* the ExerciseCompletion rows of a patient
CompletionsOf(patient) ==
    Cardinality({i \in 1..Len(completions) : completions[i].patient = patient})

ProgressOf(patient) ==
    {i \in 1..Len(progress) : progress[i].patient = patient}

Completed == last.op = "complete_exercise" /\ last.status = 200

\* C19: starting from 0, each successful complete_exercise raises the
\* record's progress_percentage by exactly 10 up to the cap of 100 and
\* leaves the other records alone, and an unsuccessful one changes none;
\* the percentage is always within 0..100 and is_completed holds exactly
\* when it is 100, with completed_at set; a patient's only record stands at
\* 10 per call up to 100, so at exactly 100 after ten calls and still at 100
\* after more
C19_ProgressByTens ==
    /\ [](\A i \in 1..Len(progress) :
             /\ progress[i].progress_percentage \in 0..100
             /\ progress[i].is_completed <=>
                    progress[i].progress_percentage = 100
             /\ progress[i].is_completed => progress[i].completed_at # Never
             /\ ProgressOf(progress[i].patient) = {i} =>
                    progress[i].progress_percentage =
                        IF CompletionsOf(progress[i].patient) >= 10 THEN 100
                        ELSE 10 * CompletionsOf(progress[i].patient))
    /\ [][last'.op = "complete_exercise" =>
             \A i \in 1..Len(progress) :
                 progress'[i].progress_percentage =
                     IF last'.status = 200 /\ last'.view.rows = {i}
                     THEN IF progress[i].progress_percentage >= 90 THEN 100
                          ELSE progress[i].progress_percentage + 10
                     ELSE progress[i].progress_percentage]_vars

\* the eleventh complete_exercise on a patient's only record
C19_Witness ==
    /\ Completed
    /\ \E i \in last.view.rows :
           /\ ProgressOf(progress[i].patient) = {i}
           /\ CompletionsOf(progress[i].patient) = 11
           /\ progress[i].progress_percentage = 100
           /\ progress[i].is_completed

(***************************************************************************)
(* Claims about the background tasks.                                      *)
(***************************************************************************)
QueueRuns == {"run_send_alert_notification", "run_send_sms_notification",
              "run_schedule_teleconsult"}

TaskRuns == QueueRuns \cup {"run_send_weekly_check_in",
                            "run_process_score_trends"}

Enqueuers == {"submit_phq9", "create_phq9", "send_message"}

\* a table after a run: no row gone, and no row changed but for the status
\* of a referral
Intact(before, after) ==
    /\ Len(after) = Len(before)
    /\ \A i \in 1..Len(before) :
           \/ after[i] = before[i]
           \/ /\ "status" \in DOMAIN before[i]
              /\ after[i] = [before[i] EXCEPT !.status = "scheduled"]

\* C21: no run of a task raises, whatever the lookup, the mail server and
\* the SMS gateway do; a run takes its message off the queue and puts none
\* back but the SMS of an alert notification; it leaves the alerts, the
\* referrals, the chatbot messages and the screenings there are; and the
\* request that enqueues a task is answered 200 or 201
C21_TaskFailuresContained ==
    /\ [](last.op \in TaskRuns => ~last.view.body.raised)
    /\ [][last'.op \in QueueRuns /\ tasks # <<>> =>
             \/ tasks' = Tail(tasks)
             \/ /\ last'.op = "run_send_alert_notification"
                /\ Len(tasks') = Len(tasks)
                /\ SubSeq(tasks', 1, Len(tasks) - 1) = Tail(tasks)
                /\ tasks'[Len(tasks')].task = "send_sms_notification"]_vars
    /\ [][last'.op \in TaskRuns =>
             /\ Intact(alerts, alerts') /\ Intact(referrals, referrals')
             /\ messages' = messages
             /\ phq9s' = phq9s /\ gad7s' = gad7s]_vars
    /\ [][last'.op \in Enqueuers /\ Len(tasks') > Len(tasks) =>
             last'.status \in {200, 201}]_vars

\* the run of an alert notification whose email failed: the alert is there,
\* nothing went out and nothing was raised
C21_Witness ==
    /\ last.op = "run_send_alert_notification"
    /\ Found(alerts, last.view.body.message.arg)
    /\ ~last.view.body.email
    /\ ~last.view.body.raised

\* the phone number of the patient of an alert
PhoneOfAlert(alert_id) == patients[alerts[alert_id].patient].phone_number

\* C22: every run of send_alert_notification for an alert there is, with
\* priority "critical" and a patient who has a phone number, enqueues
\* exactly one send_sms_notification to that number; a run with another
\* priority or for a patient without a phone number enqueues none
C22_CriticalAlertSendsSms ==
    [][last'.op = "run_send_alert_notification" /\ tasks # <<>>
          /\ Found(alerts, tasks[1].arg) =>
             IF tasks[1].priority = "critical"
                /\ PhoneOfAlert(tasks[1].arg) # ""
             THEN tasks' = Append(Tail(tasks),
                                  [task |-> "send_sms_notification",
                                   to |-> PhoneOfAlert(tasks[1].arg)])
             ELSE tasks' = Tail(tasks)]_vars


\* the screenings process_score_trends reads today
Recent(kind) ==
    {i \in 1..Len(ScreeningsOf(DB, kind)) :
        /\ ScreeningsOf(DB, kind)[i].patient # Gone
        /\ ScreeningsOf(DB, kind)[i].created_at >= now - RecentDays}

\* the latest screening of the patient and day of screening i
LatestOfDay(kind, i) ==
    MaxOf({j \in 1..Len(ScreeningsOf(DB, kind)) :
              /\ ScreeningsOf(DB, kind)[j].patient = ScreeningsOf(DB, kind)[i].patient
              /\ ScreeningsOf(DB, kind)[j].created_at
                     = ScreeningsOf(DB, kind)[i].created_at})

TrendRowsFor(patient, date) ==
    {t \in 1..Len(trends) :
        trends[t].patient = patient /\ trends[t].date = date}

MessagesOf(pk, message_type, n) ==
    {i \in 1..n : /\ messages[i].conversation = pk
                  /\ messages[i].message_type = message_type}

\* C24: in every state, also with send_message requests on one conversation
\* running side by side, a conversation has at most as many bot messages as
\* user messages, at every point of its history (a turn's bot message is
\* written after its user message); send_message changes and removes no
\* message; and the messages operation returns the conversation's messages
\* in the order they were created
C24_BotMessageAfterUserMessage ==
    /\ [](\A pk \in 1..Len(conversations), n \in 0..Len(messages) :
             Cardinality(MessagesOf(pk, "bot", n))
                 <= Cardinality(MessagesOf(pk, "user", n)))
    /\ [](\A pk \in 1..Len(conversations) :
             Cardinality(MessagesOf(pk, "user", Len(messages)))
                 = Cardinality(MessagesOf(pk, "bot", Len(messages)))
                   + Cardinality({i \in 1..Len(inflight) :
                                     inflight[i].chat.conversation = pk}))
    /\ [][/\ Len(messages') >= Len(messages)
          /\ SubSeq(messages', 1, Len(messages)) = messages]_vars
    /\ [](last.op = "messages" /\ last.status = 200 =>
             /\ \A k \in 1..Len(last.view.body) - 1 :
                   last.view.body[k] < last.view.body[k + 1]
             /\ \E pk \in 1..Len(conversations) :
                   {last.view.body[k] : k \in 1..Len(last.view.body)}
                       = {i \in 1..Len(messages) :
                             messages[i].conversation = pk})

\* two requests on one conversation ran side by side: both user messages
\* came before the first reply, one request has returned, and the
\* conversation was read
C24_Witness ==
    /\ last.op = "messages" /\ last.status = 200
    /\ Len(last.view.body) = 3
    /\ Len(inflight) = 1
    /\ messages[1].message_type = "user"
    /\ messages[2].message_type = "user"
    /\ messages[1].conversation = messages[2].conversation
    /\ messages[3].message_type = "bot"


\* the last call of predict_intent
Call == last.view.body

\* the tag before the threshold is applied: the classifier's label, or
\* "unknown" where no classifier ran
UngatedTag ==
    IF Len(Strip(Call.text)) = 0 \/ Call.clf.kind # "ok"
    THEN "unknown" ELSE Call.clf.tag

\* send_message answered, and not with the crisis template
Routed ==
    /\ last.op = "send_message" /\ last.status = 200
    /\ last.chat.reply # CrisisTemplate

\* the chatbot gates at 0.4: a templated intent of confidence 0.40 gets its
\* template, one of 0.39 the out-of-scope reply
GatedAtPointFour ==
    Routed /\ last.view.body.clf.kind = "ok"
           /\ last.view.body.clf.tag \in TemplatedIntents =>
        IF last.view.body.clf.confidence >= 40
        THEN last.chat.reply = IntentResponse(last.view.body.clf.tag,
                                   last.chat.triage_recommendation)
        ELSE last.chat.reply = OutOfScopeResponse(StrLower(last.chat.text))

C26_DegradesToUnknown ==
    /\ last.op = "predict_intent"
       /\ Call.clf.kind # "load_error"
       /\ (\/ Len(Strip(Call.text)) = 0
           \/ Call.clf.kind \in {"missing", "predict_error"}) =>
          Call.result = [raised |-> FALSE, tag |-> "unknown", confidence |-> 0]
    /\ Routed /\ last.view.body.clf.kind \in {"missing", "predict_error"} =>
          last.chat.reply = EmotionResponse(last.chat.text,
                                last.chat.primary_emotion,
                                last.chat.triage_recommendation)


\* the instrument of the screening just created, and its table
Posted == IF last.op = "create_phq9" THEN "phq9" ELSE "gad7"
PostedRows == ScreeningsOf(DB, Posted)

\* the patient's screenings of that instrument from the 14 days before the
\* one just created, itself left out
Before ==
    {j \in 1..Len(PostedRows) :
        /\ j # last.screening
        /\ PostedRows[j].patient = PostedRows[last.screening].patient
        /\ PostedRows[last.screening].created_at - PostedRows[j].created_at
               <= WindowDays}

\* the most recent of them: the latest day, and on that day the latest row
MostRecentBefore ==
    CHOOSE j \in Before :
        \A k \in Before :
            \/ PostedRows[k].created_at < PostedRows[j].created_at
            \/ PostedRows[k].created_at = PostedRows[j].created_at /\ k <= j

\* C27: for a PHQ-9 with q9 < 2 or a GAD-7 screening S the Legacy Triage
\* Engine creates a score_increase alert exactly when the patient has an
\* earlier screening of the same instrument from the last 14 days, S left
\* out, and the total of S is at least 5 above the total of the most recent
\* of them
C27_LegacyScoreIncrease ==
    /\ last.op \in {"create_phq9", "create_gad7"} /\ last.status = 201
    /\ (last.op = "create_phq9" => phq9s[last.screening].answers[9] < 2)
    =>
    /\ CountType(last.legacy.alerts, "score_increase") <= 1
    /\ CountType(last.legacy.alerts, "score_increase") = 1
         <=> /\ Before # {}
             /\ PostedRows[last.screening].total_score
                  - PostedRows[MostRecentBefore].total_score >= 5

\* a third PHQ-9 of 14 after one of 14 and, most recently, one of 8
C27_Witness ==
    /\ Ran("create_phq9")
    /\ last.screening = 3
    /\ phq9s[1].total_score = 14
    /\ phq9s[2].total_score = 8
    /\ phq9s[3].total_score = 14
    /\ phq9s[3].created_at - phq9s[1].created_at <= WindowDays
    /\ CountType(last.legacy.alerts, "score_increase") = 1


\* C28: a PHQ-9 submitted through the survey submission endpoint and stored
\* with risk_level critical (total >= 15 or q9 >= 2) has the same request
\* create at least one ScreeningAlert or TeleconsultReferral for its patient;
\* with q9 >= 2 and a total below 15 the request does not end with a
\* self-care recommendation alone
C28_CriticalPHQ9Escalates ==
    Ran("submit_phq9") /\ phq9s[last.screening].risk_level = "critical" =>
        /\ \/ \E i \in 1..Len(AllAlerts) : AllAlerts[i].patient = last.patient
           \/ \E i \in 1..Len(AllReferrals) :
                  AllReferrals[i].patient = last.patient
        /\ last.result.triageAction # "RecommendSelfCare"


\* C29: whenever the Rule Engine creates a score_increase alert while it
\* triages the PHQ-9 screening S of a submission, the screening whose score
\* it compared with was created before S and is not S, also when two
\* submissions of one patient run side by side
C29_ComparedWithEarlier ==
    /\ last.op = "submit_phq9" /\ last.status = 201
    /\ CountType(last.rule.alerts, "score_increase") > 0
    =>
    /\ last.view.body.compared # last.screening
    /\ last.view.body.compared < last.screening


\* the complete_exercise requests that have returned: each request creates
\* one ExerciseCompletion, and those in flight have created theirs
Returned200 == Len(completions) - Len(inflight)

\* C30: however complete_exercise requests on one progress record that
\* starts at 0 percent interleave, once k of them have returned the record
\* holds min(100, 10 * k) percent
C30_NoLostProgress ==
    Len(progress) >= 1 =>
        progress[1].progress_percentage = MinOf({100, 10 * Returned200})

====
